---- MODULE Spec2Model ----
(***************************************************************************)
(* Model of the real-estate backend (src/backend/server.py).               *)
(*                                                                         *)
(* The store is MongoDB: every collection is a sequence of documents in    *)
(* insertion order; find_one / update_one / delete_one act on the first    *)
(* matching document and each is atomic.  Every handler is an asyncio      *)
(* coroutine: it runs without interruption between two awaits, so one      *)
(* action of the model is one awaited store operation together with the    *)
(* local code that follows it up to the next await.  Each request has a    *)
(* slot of req, slots are taken in order of arrival, and the requests in   *)
(* flight interleave freely (Spec, SpecFav, SpecAuth, SpecEngage,         *)
(* SpecToken, SpecStats, SpecUpdate), run one at a time (SpecFavSeq,       *)
(* SpecScenario, SpecInbox), overlap only among add_to_favorites           *)
(* (SpecUnfav), or there is a single request (SpecSearch, SpecGate).  Ids  *)
(* (uuid4) are drawn from the counter nextId.  Clients present the tokens  *)
(* they were issued, except in SpecGate, where they also present tokens    *)
(* that do not verify.                                                     *)
(*                                                                         *)
(* An Optional[T] value is a sequence: <<>> is None, <<v>> is the value v. *)
(***************************************************************************)
EXTENDS Integers, Sequences, FiniteSets, TLC

VARIABLES users, properties, favorites, inquiries, now, nextId, req

vars == <<users, properties, favorites, inquiries, now, nextId, req>>

-----------------------------------------------------------------------------
(* Bounds of the model *)

\* requests in one run of the listing routes (all may be in flight at once)
MaxCalls == 2

\* requests in one run of the favorites routes and of the authentication routes
\* (all may be in flight at once)
MaxFavCalls == 3

\* requests in one run in which each request ends before the next arrives
MaxSeqCalls == 4

\* the clock stops at MaxTime minutes
MaxTime == 45

\* the clock advances in steps of TimeStep minutes
TimeStep == 15

\* criteria of a search name at most MaxPredicates predicates
MaxPredicates == 2

\* a search runs on a store of at most MaxStored listings
MaxStored == 3

\* page is in 1..MaxPage
MaxPage == 2

\* limit is in 1..MaxLimit
MaxLimit == 2

(* Program constants *)

ACCESS_TOKEN_EXPIRE_MINUTES == 30

DefaultExpireMinutes == 15

SECRET_KEY == "your-secret-key-here"

\* views of the first sample property
SeedViews == 245

\* price of the first sample property
SeedPrice == 2850000

Req == 1..MaxCalls

FavReq == 1..MaxFavCalls

SeqReq == 1..MaxSeqCalls

\* the calls of the end-to-end walk through the listing routes, in order
Scenario ==
    <<"register", "create_property", "update_property", "get_property",
      "delete_property", "delete_property", "get_property">>

ScenarioReq == 1..Len(Scenario)

\* every request slot
Slots == Req \union FavReq \union SeqReq \union ScenarioReq

None == <<>>

Some(x) == <<x>>

-----------------------------------------------------------------------------
(* The document store *)

\* a document matches a filter {"field": value, ...} when it has these values
Matches(doc, filter) == \A k \in DOMAIN filter : doc[k] = filter[k]

\* index of the first document of coll that matches filter, 0 when there is none
FirstIdx(coll, filter) ==
    IF \E i \in 1..Len(coll) : Matches(coll[i], filter)
    THEN CHOOSE i \in 1..Len(coll) :
            Matches(coll[i], filter) /\ \A j \in 1..(i - 1) : ~Matches(coll[j], filter)
    ELSE 0

\* collection.find_one(filter): the first matching document, or None
find_one(coll, filter) ==
    IF FirstIdx(coll, filter) = 0 THEN None ELSE Some(coll[FirstIdx(coll, filter)])

\* collection.insert_one(doc)
insert_one(coll, doc) == Append(coll, doc)

\* {"$set": fields}: the fields overwrite or extend those of doc
MongoSet(doc, fields) ==
    [k \in DOMAIN doc \union DOMAIN fields |->
        IF k \in DOMAIN fields THEN fields[k] ELSE doc[k]]

\* {"$inc": fields}: the stored fields are incremented in place
MongoInc(doc, fields) ==
    [k \in DOMAIN doc |-> IF k \in DOMAIN fields THEN doc[k] + fields[k] ELSE doc[k]]

\* an update document is [set |-> fields] or [inc |-> fields]
ApplyUpdate(doc, update) ==
    IF "set" \in DOMAIN update THEN MongoSet(doc, update.set)
    ELSE MongoInc(doc, update.inc)

\* collection.update_one(filter, update): the first match is updated in place
update_one(coll, filter, update) ==
    [i \in 1..Len(coll) |->
        IF i = FirstIdx(coll, filter) THEN ApplyUpdate(coll[i], update) ELSE coll[i]]

\* collection.delete_one(filter): the first match is removed
delete_one(coll, filter) ==
    IF FirstIdx(coll, filter) = 0 THEN coll
    ELSE [i \in 1..(Len(coll) - 1) |->
            IF i < FirstIdx(coll, filter) THEN coll[i] ELSE coll[i + 1]]

\* collection.count_documents(filter)
count_documents(coll, filter) ==
    Cardinality({i \in 1..Len(coll) : Matches(coll[i], filter)})

\* result.deleted_count of delete_one
deleted_count(coll, filter) == IF FirstIdx(coll, filter) = 0 THEN 0 ELSE 1

\* a text is a sequence of characters; str.lower of the letters the texts use
Lower(c) ==
    CASE c = "V" -> "v" [] c = "H" -> "h" [] c = "L" -> "l" [] c = "P" -> "p"
      [] c = "A" -> "a" [] c = "C" -> "c" [] c = "S" -> "s" [] c = "F" -> "f"
      [] OTHER -> c

\* {"$regex": pattern, "$options": "i"} for a pattern without metacharacters:
\* the pattern occurs in the text, letter case ignored
RegexSearch(pattern, text) ==
    \E i \in 0..(Len(text) - Len(pattern)) :
        \A j \in 1..Len(pattern) : Lower(text[i + j]) = Lower(pattern[j])

\* a condition on one field: a record of operators, [eq |-> v] for a plain value,
\* [in |-> list] for {"$in": list}, gte and lte for {"$gte": a, "$lte": b},
\* regex for a case-insensitive {"$regex": pattern}
Holds(value, cond) ==
    /\ "eq" \in DOMAIN cond => value = cond.eq
    /\ "in" \in DOMAIN cond => \E i \in 1..Len(cond["in"]) : cond["in"][i] = value
    /\ "gte" \in DOMAIN cond => value >= cond.gte
    /\ "lte" \in DOMAIN cond => value <= cond.lte
    /\ "regex" \in DOMAIN cond => RegexSearch(cond.regex, value)

\* a document matches a query {"field": condition, ..., "$or": [query, ...]}
MatchesQuery(doc, query) ==
    \A k \in DOMAIN query :
        IF k = "or"
        THEN \E i \in 1..Len(query[k]) :
                \A f \in DOMAIN query[k][i] : Holds(doc[f], query[k][i][f])
        ELSE Holds(doc[k], query[k])

\* collection.find(query).to_list(n): the matching documents in store order
find(coll, query) ==
    LET F[i \in 0..Len(coll)] ==
            IF i = 0 THEN <<>>
            ELSE IF MatchesQuery(coll[i], query) THEN Append(F[i - 1], coll[i])
            ELSE F[i - 1]
    IN  F[Len(coll)]

-----------------------------------------------------------------------------
(* Credentials *)

\* pwd_context.hash: an opaque one-way digest
get_password_hash(password) == [scheme |-> "bcrypt", of |-> password]

verify_password(plain_password, hashed_password) ==
    hashed_password = get_password_hash(plain_password)

\* jwt.encode(to_encode, SECRET_KEY): the claims, signed with the key
jwt_encode(claims, key) ==
    [wellformed |-> TRUE, sub |-> claims.sub, exp |-> claims.exp, sig |-> key]

\* a decoder that does not look at the expiry
jwt_decode_ignore_exp(token, key, t) ==
    IF token.wellformed /\ token.sig = key
    THEN Some([sub |-> token.sub, exp |-> token.exp])
    ELSE None

\* jwt.decode: the claims, or None for PyJWTError (malformed, bad signature, expired)
jwt_decode(token, key, t) ==
    IF token.wellformed /\ token.sig = key /\ t < token.exp
    THEN Some([sub |-> token.sub, exp |-> token.exp])
    ELSE None

create_access_token(data, expires_delta, t) ==
    LET expire == IF expires_delta # None /\ expires_delta[1] # 0
                  THEN t + expires_delta[1]
                  ELSE t + DefaultExpireMinutes
    IN  jwt_encode([sub |-> data.sub, exp |-> expire], SECRET_KEY)

\* User(**user): the stored document without its password hash
User(doc) == [id |-> doc.id, email |-> doc.email, role |-> doc.role]

\* the dependency of every authenticated route: the User, or None for a 401
get_current_user(token, t, us) ==
    LET payload == jwt_decode(token, SECRET_KEY, t) IN
    IF payload = None THEN None
    ELSE IF payload[1].sub = None THEN None
    ELSE LET user == find_one(us, [id |-> payload[1].sub[1]]) IN
         IF user = None THEN None ELSE Some(User(user[1]))

\* the detail of the 401 that get_current_user raises, "" when it returns a User
get_current_user_detail(token, t, us) ==
    LET payload == jwt_decode(token, SECRET_KEY, t) IN
    IF payload = None THEN "Invalid authentication credentials"
    ELSE IF payload[1].sub = None THEN "Invalid authentication credentials"
    ELSE IF find_one(us, [id |-> payload[1].sub[1]]) = None THEN "User not found"
    ELSE ""

-----------------------------------------------------------------------------
(* The sample data of seed_data.py *)

SellerId == 1
AgentId == 2
BuyerId == 3
Agent2Id == 4
SeedPropertyId == 5

SeedPassword == "password123"

sample_users ==
    << [id |-> SellerId, email |-> "john.seller@example.com", role |-> "seller",
        hashed_password |-> get_password_hash(SeedPassword)],
       [id |-> AgentId, email |-> "jane.agent@example.com", role |-> "agent",
        hashed_password |-> get_password_hash(SeedPassword)],
       [id |-> BuyerId, email |-> "bob.buyer@example.com", role |-> "buyer",
        hashed_password |-> get_password_hash(SeedPassword)],
       [id |-> Agent2Id, email |-> "sarah.agent@example.com", role |-> "agent",
        hashed_password |-> get_password_hash(SeedPassword)] >>

sample_properties ==
    << [id |-> SeedPropertyId, title |-> "Luxury Waterfront Villa with Pool",
        status |-> "for_sale", price |-> SeedPrice, is_featured |-> TRUE,
        owner_id |-> SellerId, agent_id |-> Some(AgentId), views |-> SeedViews,
        created_at |-> 0, updated_at |-> 0] >>

\* the bearer tokens the clients hold: one login per sample user at time 0, and
\* (ClientTokens) those that register and login have answered with since
SeedToken(uid) ==
    create_access_token([sub |-> Some(uid)], Some(ACCESS_TOKEN_EXPIRE_MINUTES), 0)

\* the tokens the clients were given by register and login
IssuedTokens ==
    {req[q].ret[1].access_token :
        q \in {x \in Slots : /\ req[x].op \in {"register", "login"}
                             /\ req[x].pc = "done" /\ req[x].status = 200}}

\* tokens nobody issued: one that does not parse, and one with the claims of a
\* sample user and a far expiry, signed with another key
ForgedTokens ==
    { [wellformed |-> FALSE, sub |-> Some(SellerId), exp |-> MaxTime + TimeStep,
       sig |-> SECRET_KEY],
      jwt_encode([sub |-> Some(SellerId), exp |-> MaxTime + TimeStep], "another-key") }

ClientTokens ==
    {SeedToken(sample_users[i].id) : i \in 1..Len(sample_users)}
        \union IssuedTokens \union ForgedTokens

\* the caller of request r presents a token that was issued to it
Honest(r) == req'[r].token \notin ForgedTokens

-----------------------------------------------------------------------------
(* Requests *)

Range(f) == {f[i] : i \in DOMAIN f}

NoToken == [wellformed |-> FALSE, sub |-> None, exp |-> 0, sig |-> ""]

\* a request slot that has not been used yet
Idle ==
    [op |-> "none", pc |-> "idle", token |-> NoToken, user |-> None, pid |-> 0,
     body |-> <<>>, doc |-> None, upd |-> None, ids |-> <<>>, status |-> 0,
     ret |-> None]

\* requests arrive in the order of their slots
CanStart(r) == req[r].pc = "idle" /\ \A q \in 1..(r - 1) : req[q].pc # "idle"

\* the handler raises HTTPException(status_code) or returns (200) or crashes (500)
Respond(q, status, ret) == [q EXCEPT !.pc = "done", !.status = status, !.ret = ret]

\* the ids a client may ask for: those of stored properties, those an earlier
\* request named, and one that never existed
RequestedIds ==
    {p.id : p \in Range(properties)} \union {req[q].pid : q \in Slots} \union {0}

\* the ids a client of the favorites and inquiries may ask for: also that of the
\* sample property, whether it is still stored or not
KnownIds == RequestedIds \union {SeedPropertyId}

-----------------------------------------------------------------------------
(* Models of server.py *)

PropertyFields ==
    {"id", "title", "status", "price", "is_featured", "owner_id", "agent_id",
     "views", "created_at", "updated_at"}

PropertyCreateFields == {"title", "status", "price", "agent_id", "is_featured"}

PropertyUpdateFields == {"title", "status", "price", "is_featured"}

\* Property(**doc): the declared fields of the document
Property(doc) == [k \in PropertyFields |-> doc[k]]

\* PropertyCreate(**body).dict(): declared fields only, defaults for the absent ones
PropertyCreate(body) ==
    [title |-> body["title"][1], status |-> body["status"][1],
     price |-> body["price"][1],
     agent_id |-> IF "agent_id" \in DOMAIN body THEN body["agent_id"] ELSE None,
     is_featured |-> IF "is_featured" \in DOMAIN body /\ body["is_featured"] # None
                     THEN body["is_featured"][1] ELSE FALSE]

\* a PropertyUpdate that keeps the undeclared keys of the body (Config.extra = allow)
PropertyUpdateAllowExtra(body) ==
    [k \in PropertyUpdateFields \union DOMAIN body |->
        IF k \in DOMAIN body THEN body[k] ELSE None]

\* a PropertyUpdate that declares views as well
PropertyUpdateWithViews(body) ==
    [k \in PropertyUpdateFields \union {"views"} |->
        IF k \in DOMAIN body THEN body[k] ELSE None]

\* PropertyUpdate(**body).dict(): declared fields only, None for the absent ones
PropertyUpdate(body) ==
    [k \in PropertyUpdateFields |-> IF k \in DOMAIN body THEN body[k] ELSE None]

\* the request bodies of POST /properties
CreateBodies ==
    { [title |-> Some("Test Property"), status |-> Some("for_sale"),
       price |-> Some(350000), owner_id |-> Some(BuyerId), views |-> Some(999)],
      [title |-> Some("Test Property"), status |-> Some("for_rent"),
       price |-> Some(350000), is_featured |-> Some(TRUE)] }

\* a body of PUT /properties/{id} that names the status alone
StatusUpdate == [status |-> Some("sold")]

\* the request bodies of PUT /properties/{id}
UpdateBodies ==
    { [title |-> Some("Updated Property"), price |-> Some(375000),
       is_featured |-> Some(FALSE)],
      [title |-> None, price |-> Some(0), id |-> Some(99),
       owner_id |-> Some(BuyerId), views |-> Some(0), created_at |-> Some(99)],
      StatusUpdate }

\* a rule that lets only the owner and the listing's own agent through
CanMutateAssignedAgent(property_doc, current_user) ==
    \/ property_doc.owner_id = current_user.id
    \/ /\ current_user.role = "agent"
       /\ property_doc.agent_id = Some(current_user.id)

\* a rule that lets every authenticated caller through
CanMutateAuthenticated(property_doc, current_user) == TRUE

\* the rule of update_property and delete_property
CanMutate(property_doc, current_user) ==
    ~(property_doc.owner_id # current_user.id /\ current_user.role # "agent")

\* update_dict of update_property
UpdateDict(property_update, t) ==
    [k \in {f \in DOMAIN property_update : property_update[f] # None}
            \union {"updated_at"} |->
        IF k = "updated_at" THEN t ELSE property_update[k][1]]

(* POST /auth/register *)

\* the request bodies of POST /auth/register
RegisterBodies ==
    { [email |-> "test.user@example.com", password |-> "Password123!",
       role |-> "buyer"],
      [email |-> "test.user@example.com", password |-> "OtherPassword456!",
       role |-> "seller"],
      [email |-> "test.seller@example.com", password |-> "Password123!",
       role |-> "seller"] }

\* the request bodies of POST /auth/login
LoginBodies ==
    {[email |-> b.email, password |-> b.password] : b \in RegisterBodies}

\* Token(access_token=..., token_type="bearer", user=user)
Token(access_token, user) ==
    [access_token |-> access_token, token_type |-> "bearer", user |-> user]

\* a register that looks the new user up by id instead of by email
register_find_by_id(r) ==
    /\ CanStart(r)
    /\ \E user_data \in RegisterBodies :
        LET existing_user == find_one(users, [id |-> nextId])
            q == [req[r] EXCEPT !.op = "register", !.body = user_data]
            user_doc == [id |-> nextId, email |-> user_data.email,
                         role |-> user_data.role,
                         hashed_password |-> get_password_hash(user_data.password)]
        IN  IF existing_user # None
            THEN /\ req' = [req EXCEPT ![r] = Respond(q, 400, None)]
                 /\ nextId' = nextId
            ELSE /\ req' = [req EXCEPT ![r] =
                               [q EXCEPT !.pc = "register_insert",
                                         !.doc = Some(user_doc)]]
                 /\ nextId' = nextId + 1
    /\ UNCHANGED <<users, properties, favorites, inquiries, now>>

register_find(r) ==
    /\ CanStart(r)
    /\ \E user_data \in RegisterBodies :
        LET existing_user == find_one(users, [email |-> user_data.email])
            q == [req[r] EXCEPT !.op = "register", !.body = user_data]
            user_doc == [id |-> nextId, email |-> user_data.email,
                         role |-> user_data.role,
                         hashed_password |-> get_password_hash(user_data.password)]
        IN  IF existing_user # None
            THEN /\ req' = [req EXCEPT ![r] = Respond(q, 400, None)]
                 /\ nextId' = nextId
            ELSE /\ req' = [req EXCEPT ![r] =
                               [q EXCEPT !.pc = "register_insert",
                                         !.doc = Some(user_doc)]]
                 /\ nextId' = nextId + 1
    /\ UNCHANGED <<users, properties, favorites, inquiries, now>>

register_insert(r) ==
    /\ req[r].pc = "register_insert"
    /\ users' = insert_one(users, req[r].doc[1])
    /\ LET user == User(req[r].doc[1])
           access_token ==
               create_access_token([sub |-> Some(user.id)],
                                   Some(ACCESS_TOKEN_EXPIRE_MINUTES), now)
       IN  req' = [req EXCEPT ![r] = Respond(@, 200, Some(Token(access_token, user)))]
    /\ UNCHANGED <<properties, favorites, inquiries, now, nextId>>

(* POST /auth/login *)

\* what login answers to these credentials: the status and the Token
login_response(user_credentials, us, t) ==
    LET user_doc == find_one(us, [email |-> user_credentials.email]) IN
    IF user_doc = None
       \/ ~verify_password(user_credentials.password, user_doc[1].hashed_password)
    THEN [status |-> 401, ret |-> None]
    ELSE [status |-> 200,
          ret |-> Some(Token(create_access_token([sub |-> Some(user_doc[1].id)],
                                                 Some(ACCESS_TOKEN_EXPIRE_MINUTES), t),
                             User(user_doc[1])))]

login(r) ==
    /\ CanStart(r)
    /\ \E user_credentials \in LoginBodies :
        LET q == [req[r] EXCEPT !.op = "login", !.body = user_credentials]
            answer == login_response(user_credentials, users, now)
        IN  req' = [req EXCEPT ![r] = Respond(q, answer.status, answer.ret)]
    /\ UNCHANGED <<users, properties, favorites, inquiries, now, nextId>>

(* GET /auth/me *)

get_current_user_info(r) ==
    /\ CanStart(r)
    /\ \E token \in ClientTokens :
        LET current_user == get_current_user(token, now, users)
            q == [req[r] EXCEPT !.op = "get_current_user_info", !.token = token,
                                !.user = current_user]
        IN  req' = [req EXCEPT ![r] =
                        IF current_user = None THEN Respond(q, 401, None)
                        ELSE Respond(q, 200, current_user)]
    /\ UNCHANGED <<users, properties, favorites, inquiries, now, nextId>>

\* a call of create_access_token by itself, with and without expires_delta
ExpiresDeltas == {None, Some(TimeStep), Some(ACCESS_TOKEN_EXPIRE_MINUTES)}

issue_token(r) ==
    /\ CanStart(r)
    /\ \E sub \in {SellerId, BuyerId}, expires_delta \in ExpiresDeltas :
        LET data == [sub |-> Some(sub)]
            q == [req[r] EXCEPT !.op = "create_access_token",
                                !.body = [data |-> data,
                                          expires_delta |-> expires_delta]]
        IN  req' = [req EXCEPT ![r] =
                       Respond(q, 200,
                               Some([access_token |->
                                        create_access_token(data, expires_delta, now)]))]
    /\ UNCHANGED <<users, properties, favorites, inquiries, now, nextId>>

\* time passes
Tick ==
    /\ now + TimeStep <= MaxTime
    /\ now' = now + TimeStep
    /\ UNCHANGED <<users, properties, favorites, inquiries, nextId, req>>

(* POST /properties *)

\* a create_property that takes owner_id and views from the body when it has them
create_property_auth_payload_owner(r) ==
    /\ CanStart(r)
    /\ \E token \in ClientTokens, body \in CreateBodies :
        LET current_user == get_current_user(token, now, users)
            q == [req[r] EXCEPT !.op = "create_property", !.token = token,
                                !.user = current_user, !.body = body]
            property_dict == PropertyCreate(body)
            property_obj ==
                [id |-> nextId, title |-> property_dict.title,
                 status |-> property_dict.status, price |-> property_dict.price,
                 is_featured |-> property_dict.is_featured,
                 owner_id |-> IF "owner_id" \in DOMAIN body THEN body.owner_id[1]
                              ELSE current_user[1].id,
                 agent_id |-> property_dict.agent_id,
                 views |-> IF "views" \in DOMAIN body THEN body.views[1] ELSE 0,
                 created_at |-> now, updated_at |-> now]
        IN  IF current_user = None
            THEN /\ req' = [req EXCEPT ![r] = Respond(q, 401, None)]
                 /\ nextId' = nextId
            ELSE /\ req' = [req EXCEPT ![r] =
                                [q EXCEPT !.pc = "create_insert",
                                          !.doc = Some(property_obj)]]
                 /\ nextId' = nextId + 1
    /\ UNCHANGED <<users, properties, favorites, inquiries, now>>

create_property_auth(r) ==
    /\ CanStart(r)
    /\ \E token \in ClientTokens, body \in CreateBodies :
        LET current_user == get_current_user(token, now, users)
            q == [req[r] EXCEPT !.op = "create_property", !.token = token,
                                !.user = current_user, !.body = body]
            property_dict == PropertyCreate(body)
            property_obj ==
                [id |-> nextId, title |-> property_dict.title,
                 status |-> property_dict.status, price |-> property_dict.price,
                 is_featured |-> property_dict.is_featured,
                 owner_id |-> current_user[1].id,
                 agent_id |-> property_dict.agent_id, views |-> 0,
                 created_at |-> now, updated_at |-> now]
        IN  IF current_user = None
            THEN /\ req' = [req EXCEPT ![r] = Respond(q, 401, None)]
                 /\ nextId' = nextId
            ELSE /\ req' = [req EXCEPT ![r] =
                                [q EXCEPT !.pc = "create_insert",
                                          !.doc = Some(property_obj)]]
                 /\ nextId' = nextId + 1
    /\ UNCHANGED <<users, properties, favorites, inquiries, now>>

create_property_insert(r) ==
    /\ req[r].pc = "create_insert"
    /\ properties' = insert_one(properties, req[r].doc[1])
    /\ req' = [req EXCEPT ![r] = Respond(@, 200, Some(Property(req[r].doc[1])))]
    /\ UNCHANGED <<users, favorites, inquiries, now, nextId>>

(* GET /properties/{property_id} *)

get_property_find(r) ==
    /\ CanStart(r)
    /\ \E property_id \in RequestedIds :
        LET property_doc == find_one(properties, [id |-> property_id])
            q == [req[r] EXCEPT !.op = "get_property", !.pid = property_id,
                                !.doc = property_doc]
        IN  req' = [req EXCEPT ![r] =
                        IF property_doc = None THEN Respond(q, 404, None)
                        ELSE [q EXCEPT !.pc = "get_inc"]]
    /\ UNCHANGED <<users, properties, favorites, inquiries, now, nextId>>

\* a view increment written as read-modify-write of the document read before
get_property_inc_rmw(r) ==
    /\ req[r].pc = "get_inc"
    /\ properties' = update_one(properties, [id |-> req[r].pid],
                                [set |-> [views |-> req[r].doc[1].views + 1]])
    /\ req' = [req EXCEPT ![r] =
                  Respond(@, 200, Some(Property([req[r].doc[1] EXCEPT !.views = @ + 1])))]
    /\ UNCHANGED <<users, favorites, inquiries, now, nextId>>

get_property_inc(r) ==
    /\ req[r].pc = "get_inc"
    /\ properties' = update_one(properties, [id |-> req[r].pid],
                                [inc |-> [views |-> 1]])
    /\ req' = [req EXCEPT ![r] =
                  Respond(@, 200, Some(Property([req[r].doc[1] EXCEPT !.views = @ + 1])))]
    /\ UNCHANGED <<users, favorites, inquiries, now, nextId>>

(* PUT /properties/{property_id} *)

update_property_auth(r) ==
    /\ CanStart(r)
    /\ \E token \in ClientTokens, property_id \in RequestedIds, body \in UpdateBodies :
        LET current_user == get_current_user(token, now, users)
            q == [req[r] EXCEPT !.op = "update_property", !.token = token,
                                !.user = current_user, !.pid = property_id,
                                !.body = body]
        IN  req' = [req EXCEPT ![r] =
                        IF current_user = None THEN Respond(q, 401, None)
                        ELSE [q EXCEPT !.pc = "update_find"]]
    /\ UNCHANGED <<users, properties, favorites, inquiries, now, nextId>>

\* an update_property that authorizes before it looks at what find_one returned
update_property_find_auth_first(r) ==
    /\ req[r].pc = "update_find"
    /\ LET property_doc == find_one(properties, [id |-> req[r].pid])
           q == [req[r] EXCEPT !.doc = property_doc]
       IN  req' = [req EXCEPT ![r] =
                     IF req[r].user[1].role # "agent"
                        /\ (property_doc = None
                            \/ property_doc[1].owner_id # req[r].user[1].id)
                     THEN Respond(q, 403, None)
                     ELSE IF property_doc = None THEN Respond(q, 404, None)
                     ELSE [q EXCEPT !.pc = "update_set",
                                    !.upd = Some(UpdateDict(PropertyUpdate(req[r].body),
                                                            now))]]
    /\ UNCHANGED <<users, properties, favorites, inquiries, now, nextId>>

update_property_find(r) ==
    /\ req[r].pc = "update_find"
    /\ LET property_doc == find_one(properties, [id |-> req[r].pid])
           q == [req[r] EXCEPT !.doc = property_doc]
       IN  req' = [req EXCEPT ![r] =
                     IF property_doc = None THEN Respond(q, 404, None)
                     ELSE IF ~CanMutate(property_doc[1], req[r].user[1])
                     THEN Respond(q, 403, None)
                     ELSE [q EXCEPT !.pc = "update_set",
                                    !.upd = Some(UpdateDict(PropertyUpdate(req[r].body),
                                                            now))]]
    /\ UNCHANGED <<users, properties, favorites, inquiries, now, nextId>>

\* an update that writes back the whole document it read, with its changes
update_property_set_replace(r) ==
    /\ req[r].pc = "update_set"
    /\ properties' = update_one(properties, [id |-> req[r].pid],
                                [set |-> MongoSet(req[r].doc[1], req[r].upd[1])])
    /\ req' = [req EXCEPT ![r].pc = "update_reread"]
    /\ UNCHANGED <<users, favorites, inquiries, now, nextId>>

update_property_set(r) ==
    /\ req[r].pc = "update_set"
    /\ properties' = update_one(properties, [id |-> req[r].pid],
                                [set |-> req[r].upd[1]])
    /\ req' = [req EXCEPT ![r].pc = "update_reread"]
    /\ UNCHANGED <<users, favorites, inquiries, now, nextId>>

update_property_reread(r) ==
    /\ req[r].pc = "update_reread"
    /\ LET updated_property == find_one(properties, [id |-> req[r].pid])
       IN  req' = [req EXCEPT ![r] =
                     IF updated_property = None
                     THEN Respond(@, 500, None)
                     ELSE Respond(@, 200, Some(Property(updated_property[1])))]
    /\ UNCHANGED <<users, properties, favorites, inquiries, now, nextId>>

(* DELETE /properties/{property_id} *)

delete_property_auth(r) ==
    /\ CanStart(r)
    /\ \E token \in ClientTokens, property_id \in RequestedIds :
        LET current_user == get_current_user(token, now, users)
            q == [req[r] EXCEPT !.op = "delete_property", !.token = token,
                                !.user = current_user, !.pid = property_id]
        IN  req' = [req EXCEPT ![r] =
                        IF current_user = None THEN Respond(q, 401, None)
                        ELSE [q EXCEPT !.pc = "delete_find"]]
    /\ UNCHANGED <<users, properties, favorites, inquiries, now, nextId>>

delete_property_find(r) ==
    /\ req[r].pc = "delete_find"
    /\ LET property_doc == find_one(properties, [id |-> req[r].pid])
           q == [req[r] EXCEPT !.doc = property_doc]
       IN  req' = [req EXCEPT ![r] =
                     IF property_doc = None THEN Respond(q, 404, None)
                     ELSE IF ~CanMutate(property_doc[1], req[r].user[1])
                     THEN Respond(q, 403, None)
                     ELSE [q EXCEPT !.pc = "delete_del"]]
    /\ UNCHANGED <<users, properties, favorites, inquiries, now, nextId>>

\* a delete_property that also removes a favorite that refers to the property
delete_property_del_cascade(r) ==
    /\ req[r].pc = "delete_del"
    /\ properties' = delete_one(properties, [id |-> req[r].pid])
    /\ favorites' = delete_one(favorites, [property_id |-> req[r].pid])
    /\ req' = [req EXCEPT ![r] =
                  Respond(@, 200, Some([message |-> "Property deleted successfully"]))]
    /\ UNCHANGED <<users, inquiries, now, nextId>>

delete_property_del(r) ==
    /\ req[r].pc = "delete_del"
    /\ properties' = delete_one(properties, [id |-> req[r].pid])
    /\ req' = [req EXCEPT ![r] =
                  Respond(@, 200, Some([message |-> "Property deleted successfully"]))]
    /\ UNCHANGED <<users, favorites, inquiries, now, nextId>>

(* POST /favorites/{property_id} *)

\* the callers of the favorites routes: the sample buyer and the sample seller
FavoriteTokens == {SeedToken(BuyerId), SeedToken(SellerId)} \union ForgedTokens

\* the filter {"user_id": ..., "property_id": ...} of the favorites routes
FavoriteFilter(user_id, property_id) ==
    [user_id |-> user_id, property_id |-> property_id]

add_to_favorites_auth(r) ==
    /\ CanStart(r)
    /\ \E token \in FavoriteTokens, property_id \in KnownIds :
        LET current_user == get_current_user(token, now, users)
            q == [req[r] EXCEPT !.op = "add_to_favorites", !.token = token,
                                !.user = current_user, !.pid = property_id]
        IN  req' = [req EXCEPT ![r] =
                        IF current_user = None THEN Respond(q, 401, None)
                        ELSE [q EXCEPT !.pc = "fav_find_property"]]
    /\ UNCHANGED <<users, properties, favorites, inquiries, now, nextId>>

\* an add_to_favorites that looks for the duplicate before the property
add_to_favorites_find_duplicate_first(r) ==
    /\ req[r].pc = "fav_find_property"
    /\ LET property_doc == find_one(properties, [id |-> req[r].pid])
           existing_favorite ==
               find_one(favorites, FavoriteFilter(req[r].user[1].id, req[r].pid))
       IN  req' = [req EXCEPT ![r] =
                     IF existing_favorite # None THEN Respond(@, 400, None)
                     ELSE IF property_doc = None THEN Respond(@, 404, None)
                     ELSE [@ EXCEPT !.pc = "fav_find_existing"]]
    /\ UNCHANGED <<users, properties, favorites, inquiries, now, nextId>>

add_to_favorites_find_property(r) ==
    /\ req[r].pc = "fav_find_property"
    /\ LET property_doc == find_one(properties, [id |-> req[r].pid])
       IN  req' = [req EXCEPT ![r] =
                     IF property_doc = None THEN Respond(@, 404, None)
                     ELSE [@ EXCEPT !.pc = "fav_find_existing"]]
    /\ UNCHANGED <<users, properties, favorites, inquiries, now, nextId>>

\* an add_to_favorites whose duplicate check filters on the favorite's own id
add_to_favorites_find_existing_any(r) ==
    /\ req[r].pc = "fav_find_existing"
    /\ LET existing_favorite ==
               find_one(favorites, [user_id |-> req[r].user[1].id, id |-> req[r].pid])
           favorite == [id |-> nextId, user_id |-> req[r].user[1].id,
                        property_id |-> req[r].pid, created_at |-> now]
       IN  IF existing_favorite # None
           THEN /\ req' = [req EXCEPT ![r] = Respond(@, 400, None)]
                /\ nextId' = nextId
           ELSE /\ req' = [req EXCEPT ![r] =
                              [@ EXCEPT !.pc = "fav_insert", !.doc = Some(favorite)]]
                /\ nextId' = nextId + 1
    /\ UNCHANGED <<users, properties, favorites, inquiries, now>>

add_to_favorites_find_existing(r) ==
    /\ req[r].pc = "fav_find_existing"
    /\ LET existing_favorite ==
               find_one(favorites, FavoriteFilter(req[r].user[1].id, req[r].pid))
           favorite == [id |-> nextId, user_id |-> req[r].user[1].id,
                        property_id |-> req[r].pid, created_at |-> now]
       IN  IF existing_favorite # None
           THEN /\ req' = [req EXCEPT ![r] = Respond(@, 400, None)]
                /\ nextId' = nextId
           ELSE /\ req' = [req EXCEPT ![r] =
                              [@ EXCEPT !.pc = "fav_insert", !.doc = Some(favorite)]]
                /\ nextId' = nextId + 1
    /\ UNCHANGED <<users, properties, favorites, inquiries, now>>

add_to_favorites_insert(r) ==
    /\ req[r].pc = "fav_insert"
    /\ favorites' = insert_one(favorites, req[r].doc[1])
    /\ req' = [req EXCEPT ![r] =
                  Respond(@, 200, Some([message |-> "Property added to favorites"]))]
    /\ UNCHANGED <<users, properties, inquiries, now, nextId>>

(* DELETE /favorites/{property_id} *)

remove_from_favorites_auth(r) ==
    /\ CanStart(r)
    /\ \E token \in FavoriteTokens, property_id \in KnownIds :
        LET current_user == get_current_user(token, now, users)
            q == [req[r] EXCEPT !.op = "remove_from_favorites", !.token = token,
                                !.user = current_user, !.pid = property_id]
        IN  req' = [req EXCEPT ![r] =
                        IF current_user = None THEN Respond(q, 401, None)
                        ELSE [q EXCEPT !.pc = "unfav_delete"]]
    /\ UNCHANGED <<users, properties, favorites, inquiries, now, nextId>>

remove_from_favorites_delete(r) ==
    /\ req[r].pc = "unfav_delete"
    /\ favorites' = delete_one(favorites,
                                FavoriteFilter(req[r].user[1].id, req[r].pid))
    /\ req' = [req EXCEPT ![r] =
                  IF deleted_count(favorites,
                        FavoriteFilter(req[r].user[1].id, req[r].pid)) = 0
                  THEN Respond(@, 404, None)
                  ELSE Respond(@, 200,
                               Some([message |-> "Property removed from favorites"]))]
    /\ UNCHANGED <<users, properties, inquiries, now, nextId>>

(* GET /favorites *)

\* [doc[field] for doc in docs]
FieldOf(docs, field) == [i \in 1..Len(docs) |-> docs[i][field]]

\* [Model(**doc) for doc in docs], for a model with these declared fields
ModelList(docs, fields) == [i \in 1..Len(docs) |-> [k \in fields |-> docs[i][k]]]

get_favorites_auth(r) ==
    /\ CanStart(r)
    /\ \E token \in FavoriteTokens :
        LET current_user == get_current_user(token, now, users)
            q == [req[r] EXCEPT !.op = "get_favorites", !.token = token,
                                !.user = current_user]
        IN  req' = [req EXCEPT ![r] =
                        IF current_user = None THEN Respond(q, 401, None)
                        ELSE [q EXCEPT !.pc = "favs_find"]]
    /\ UNCHANGED <<users, properties, favorites, inquiries, now, nextId>>

\* a get_favorites that reads the favorites of every user
get_favorites_find_all(r) ==
    /\ req[r].pc = "favs_find"
    /\ LET favs == find(favorites, <<>>)
       IN  req' = [req EXCEPT ![r] =
                     [@ EXCEPT !.pc = "favs_find_properties",
                               !.ids = FieldOf(favs, "property_id")]]
    /\ UNCHANGED <<users, properties, favorites, inquiries, now, nextId>>

get_favorites_find(r) ==
    /\ req[r].pc = "favs_find"
    /\ LET favs == find(favorites, [user_id |-> [eq |-> req[r].user[1].id]])
       IN  req' = [req EXCEPT ![r] =
                     [@ EXCEPT !.pc = "favs_find_properties",
                               !.ids = FieldOf(favs, "property_id")]]
    /\ UNCHANGED <<users, properties, favorites, inquiries, now, nextId>>

get_favorites_find_properties(r) ==
    /\ req[r].pc = "favs_find_properties"
    /\ LET props == find(properties, [id |-> [in |-> req[r].ids]])
       IN  req' = [req EXCEPT ![r] =
                     Respond(@, 200, Some(ModelList(props, PropertyFields)))]
    /\ UNCHANGED <<users, properties, favorites, inquiries, now, nextId>>

(* POST /inquiries *)

InquiryFields ==
    {"id", "property_id", "user_id", "message", "contact_email", "status",
     "created_at"}

InquiryCreateFields == {"property_id", "message", "contact_email"}

\* InquiryCreate(**body).dict(): declared fields only
InquiryCreate(body) == [k \in InquiryCreateFields |-> body[k]]

\* the request bodies of POST /inquiries: each names a user_id, a status and an id
\* of its own
InquiryBodies ==
    { [property_id |-> pid, message |-> "I'm interested in this property.",
       contact_email |-> "test.user@example.com",
       user_id |-> SellerId, status |-> "closed", id |-> 99] : pid \in KnownIds }

\* the callers of POST /inquiries: the sample buyer and the sample seller
InquirerTokens == {SeedToken(BuyerId), SeedToken(SellerId)} \union ForgedTokens

\* a create_inquiry that keeps the user_id of the request body
create_inquiry_auth_payload_user(r) ==
    /\ CanStart(r)
    /\ \E token \in InquirerTokens, body \in InquiryBodies :
        LET current_user == get_current_user(token, now, users)
            q == [req[r] EXCEPT !.op = "create_inquiry", !.token = token,
                                !.user = current_user, !.body = body,
                                !.pid = body.property_id]
            inquiry_dict == MongoSet(InquiryCreate(body),
                                     [user_id |-> body.user_id])
            inquiry_obj == [id |-> nextId, property_id |-> inquiry_dict.property_id,
                            user_id |-> inquiry_dict.user_id,
                            message |-> inquiry_dict.message,
                            contact_email |-> inquiry_dict.contact_email,
                            status |-> "new",
                            created_at |-> now]
        IN  IF current_user = None
            THEN /\ req' = [req EXCEPT ![r] = Respond(q, 401, None)]
                 /\ nextId' = nextId
            ELSE /\ req' = [req EXCEPT ![r] =
                                [q EXCEPT !.pc = "inquiry_insert",
                                          !.doc = Some(inquiry_obj)]]
                 /\ nextId' = nextId + 1
    /\ UNCHANGED <<users, properties, favorites, inquiries, now>>

\* a create_inquiry that refuses a property_id that is not in the store
create_inquiry_auth_checked(r) ==
    /\ CanStart(r)
    /\ \E token \in InquirerTokens, body \in InquiryBodies :
        LET current_user == get_current_user(token, now, users)
            q == [req[r] EXCEPT !.op = "create_inquiry", !.token = token,
                                !.user = current_user, !.body = body,
                                !.pid = body.property_id]
            inquiry_dict == MongoSet(InquiryCreate(body),
                                     [user_id |-> current_user[1].id])
            inquiry_obj == [id |-> nextId, property_id |-> inquiry_dict.property_id,
                            user_id |-> inquiry_dict.user_id,
                            message |-> inquiry_dict.message,
                            contact_email |-> inquiry_dict.contact_email,
                            status |-> "new",
                            created_at |-> now]
        IN  IF current_user = None
            THEN /\ req' = [req EXCEPT ![r] = Respond(q, 401, None)]
                 /\ nextId' = nextId
            ELSE IF find_one(properties, [id |-> body.property_id]) = None
            THEN /\ req' = [req EXCEPT ![r] = Respond(q, 404, None)]
                 /\ nextId' = nextId
            ELSE /\ req' = [req EXCEPT ![r] =
                                [q EXCEPT !.pc = "inquiry_insert",
                                          !.doc = Some(inquiry_obj)]]
                 /\ nextId' = nextId + 1
    /\ UNCHANGED <<users, properties, favorites, inquiries, now>>

create_inquiry_auth(r) ==
    /\ CanStart(r)
    /\ \E token \in InquirerTokens, body \in InquiryBodies :
        LET current_user == get_current_user(token, now, users)
            q == [req[r] EXCEPT !.op = "create_inquiry", !.token = token,
                                !.user = current_user, !.body = body,
                                !.pid = body.property_id]
            inquiry_dict == MongoSet(InquiryCreate(body),
                                     [user_id |-> current_user[1].id])
            inquiry_obj == [id |-> nextId, property_id |-> inquiry_dict.property_id,
                            user_id |-> inquiry_dict.user_id,
                            message |-> inquiry_dict.message,
                            contact_email |-> inquiry_dict.contact_email,
                            status |-> "new",
                            created_at |-> now]
        IN  IF current_user = None
            THEN /\ req' = [req EXCEPT ![r] = Respond(q, 401, None)]
                 /\ nextId' = nextId
            ELSE /\ req' = [req EXCEPT ![r] =
                                [q EXCEPT !.pc = "inquiry_insert",
                                          !.doc = Some(inquiry_obj)]]
                 /\ nextId' = nextId + 1
    /\ UNCHANGED <<users, properties, favorites, inquiries, now>>

create_inquiry_insert(r) ==
    /\ req[r].pc = "inquiry_insert"
    /\ inquiries' = insert_one(inquiries, req[r].doc[1])
    /\ req' = [req EXCEPT ![r] = Respond(@, 200, req[r].doc)]
    /\ UNCHANGED <<users, properties, favorites, now, nextId>>

(* GET /inquiries *)

\* the callers of GET /inquiries: the sample buyer, the sample seller (owner of
\* the sample property) and the agent of the sample property
InquiryReaderTokens ==
    {SeedToken(BuyerId), SeedToken(SellerId), SeedToken(AgentId)} \union ForgedTokens

get_inquiries_auth(r) ==
    /\ CanStart(r)
    /\ \E token \in InquiryReaderTokens :
        LET current_user == get_current_user(token, now, users)
            q == [req[r] EXCEPT !.op = "get_inquiries", !.token = token,
                                !.user = current_user]
        IN  req' = [req EXCEPT ![r] =
                        IF current_user = None THEN Respond(q, 401, None)
                        ELSE [q EXCEPT !.pc = "inquiries_find"]]
    /\ UNCHANGED <<users, properties, favorites, inquiries, now, nextId>>

\* a get_inquiries that gives a buyer the inquiries of every user
get_inquiries_find_all(r) ==
    /\ req[r].pc = "inquiries_find"
    /\ LET current_user == req[r].user[1]
           found == find(inquiries, <<>>)
           user_properties == find(properties, [owner_id |-> [eq |-> current_user.id]])
       IN  req' = [req EXCEPT ![r] =
                     IF current_user.role = "buyer"
                     THEN Respond(@, 200, Some(ModelList(found, InquiryFields)))
                     ELSE [@ EXCEPT !.pc = "inquiries_find_in",
                                    !.ids = FieldOf(user_properties, "id")]]
    /\ UNCHANGED <<users, properties, favorites, inquiries, now, nextId>>

\* a get_inquiries that counts the listings a caller is the agent of as hers
get_inquiries_find_agent_listings(r) ==
    /\ req[r].pc = "inquiries_find"
    /\ LET current_user == req[r].user[1]
           found == find(inquiries, [user_id |-> [eq |-> current_user.id]])
           user_properties ==
               find(properties, [owner_id |-> [eq |-> current_user.id]])
                   \o find(properties, [agent_id |-> [eq |-> Some(current_user.id)]])
       IN  req' = [req EXCEPT ![r] =
                     IF current_user.role = "buyer"
                     THEN Respond(@, 200, Some(ModelList(found, InquiryFields)))
                     ELSE [@ EXCEPT !.pc = "inquiries_find_in",
                                    !.ids = FieldOf(user_properties, "id")]]
    /\ UNCHANGED <<users, properties, favorites, inquiries, now, nextId>>

\* the first read: the buyer's own inquiries, or the properties the caller owns
get_inquiries_find(r) ==
    /\ req[r].pc = "inquiries_find"
    /\ LET current_user == req[r].user[1]
           found == find(inquiries, [user_id |-> [eq |-> current_user.id]])
           user_properties == find(properties, [owner_id |-> [eq |-> current_user.id]])
       IN  req' = [req EXCEPT ![r] =
                     IF current_user.role = "buyer"
                     THEN Respond(@, 200, Some(ModelList(found, InquiryFields)))
                     ELSE [@ EXCEPT !.pc = "inquiries_find_in",
                                    !.ids = FieldOf(user_properties, "id")]]
    /\ UNCHANGED <<users, properties, favorites, inquiries, now, nextId>>

get_inquiries_find_in(r) ==
    /\ req[r].pc = "inquiries_find_in"
    /\ LET found == find(inquiries, [property_id |-> [in |-> req[r].ids]])
       IN  req' = [req EXCEPT ![r] =
                     Respond(@, 200, Some(ModelList(found, InquiryFields)))]
    /\ UNCHANGED <<users, properties, favorites, inquiries, now, nextId>>

(* POST /properties/search and GET /properties *)

\* the Property model with the fields a search reads
ListingFields ==
    PropertyFields \union
        {"description", "property_type", "bedrooms", "bathrooms", "area_sqft",
         "address", "city", "state"}

\* the predicates of PropertySearch
PredicateNames ==
    {"query", "property_type", "status", "min_price", "max_price", "min_bedrooms",
     "max_bedrooms", "min_bathrooms", "max_bathrooms", "city", "state", "min_area",
     "max_area", "is_featured"}

\* the predicates get_properties accepts as query parameters
ListPredicateNames ==
    {"property_type", "status", "min_price", "max_price", "city", "is_featured"}

\* PropertySearch(): every predicate None, page 1, limit 20 unless given
NoCriteria == [k \in PredicateNames |-> None]

\* the values the clients give to a predicate
CriteriaValues(k) ==
    CASE k = "query" -> {<<"v", "i", "l", "l", "a">>, <<>>}
      [] k = "property_type" -> {"villa", "house"}
      [] k = "status" -> {"for_sale", "for_rent"}
      [] k = "min_price" -> {0, 300000}
      [] k = "max_price" -> {0, 400000}
      [] k = "min_bedrooms" -> {0, 2}
      [] k = "max_bedrooms" -> {0, 4}
      [] k = "min_bathrooms" -> {0, 2}
      [] k = "max_bathrooms" -> {0, 2}
      [] k = "city" -> {<<"l", "a">>}
      [] k = "state" -> {<<"c", "a">>}
      [] k = "min_area" -> {0, 1500}
      [] k = "max_area" -> {0, 1500}
      [] k = "is_featured" -> {TRUE, FALSE}

\* the criteria that name at most n predicates
RECURSIVE CriteriaWith(_)
CriteriaWith(n) ==
    IF n = 0 THEN {NoCriteria}
    ELSE CriteriaWith(n - 1) \union
         UNION {{[c EXCEPT ![k] = Some(v)] : v \in CriteriaValues(k)} :
                   c \in CriteriaWith(n - 1), k \in PredicateNames}

\* the request bodies of POST /properties/search, page and limit apart
SearchCriteria == CriteriaWith(MaxPredicates)

\* the query parameters of GET /properties, page and limit apart
ListCriteria ==
    {c \in SearchCriteria : \A k \in PredicateNames \ ListPredicateNames : c[k] = None}

\* a bound that is 0 is ignored, as "if min_price or max_price:" would do
RangeCondTruthy(lo, hi) ==
    [k \in {x \in {"gte", "lte"} : \/ x = "gte" /\ lo # None /\ lo # Some(0)
                                   \/ x = "lte" /\ hi # None /\ hi # Some(0)} |->
        IF k = "gte" THEN lo[1] ELSE hi[1]]

\* {"$gte": lo, "$lte": hi} with the bounds that are not None
RangeCond(lo, hi) ==
    [k \in {x \in {"gte", "lte"} : \/ x = "gte" /\ lo # None
                                   \/ x = "lte" /\ hi # None} |->
        IF k = "gte" THEN lo[1] ELSE hi[1]]

\* "if value:" for an Optional[str]: given and not empty
Truthy(text) == text # None /\ text # Some(<<>>)

\* filter_dict of search_properties
search_filter_dict(search_params) ==
    LET p == search_params
        keys ==
            {k \in {"or", "property_type", "status", "price", "bedrooms",
                    "bathrooms", "area_sqft", "city", "state", "is_featured"} :
                \/ k = "or" /\ Truthy(p.query)
                \/ k = "property_type" /\ p.property_type # None
                \/ k = "status" /\ p.status # None
                \/ k = "price" /\ (p.min_price # None \/ p.max_price # None)
                \/ k = "bedrooms" /\ (p.min_bedrooms # None \/ p.max_bedrooms # None)
                \/ k = "bathrooms"
                     /\ (p.min_bathrooms # None \/ p.max_bathrooms # None)
                \/ k = "area_sqft" /\ (p.min_area # None \/ p.max_area # None)
                \/ k = "city" /\ Truthy(p.city)
                \/ k = "state" /\ Truthy(p.state)
                \/ k = "is_featured" /\ p.is_featured # None}
    IN  [k \in keys |->
            CASE k = "or" -> << [title |-> [regex |-> p.query[1]]],
                                [description |-> [regex |-> p.query[1]]],
                                [address |-> [regex |-> p.query[1]]],
                                [city |-> [regex |-> p.query[1]]] >>
              [] k = "property_type" -> [eq |-> p.property_type[1]]
              [] k = "status" -> [eq |-> p.status[1]]
              [] k = "price" -> RangeCond(p.min_price, p.max_price)
              [] k = "bedrooms" -> RangeCond(p.min_bedrooms, p.max_bedrooms)
              [] k = "bathrooms" -> RangeCond(p.min_bathrooms, p.max_bathrooms)
              [] k = "area_sqft" -> RangeCond(p.min_area, p.max_area)
              [] k = "city" -> [regex |-> p.city[1]]
              [] k = "state" -> [regex |-> p.state[1]]
              [] k = "is_featured" -> [eq |-> p.is_featured[1]]]

\* filter_dict of get_properties
list_filter_dict(params) ==
    LET p == params
        keys ==
            {k \in {"property_type", "status", "price", "city", "is_featured"} :
                \/ k = "property_type" /\ p.property_type # None
                \/ k = "status" /\ p.status # None
                \/ k = "price" /\ (p.min_price # None \/ p.max_price # None)
                \/ k = "city" /\ Truthy(p.city)
                \/ k = "is_featured" /\ p.is_featured # None}
    IN  [k \in keys |->
            CASE k = "property_type" -> [eq |-> p.property_type[1]]
              [] k = "status" -> [eq |-> p.status[1]]
              [] k = "price" -> RangeCond(p.min_price, p.max_price)
              [] k = "city" -> [regex |-> p.city[1]]
              [] k = "is_featured" -> [eq |-> p.is_featured[1]]]

\* an offset that counts pages from 0
skip_from_zero(page, limit) == page * limit

\* skip = (page - 1) * limit
skip_of(page, limit) == (page - 1) * limit

\* cursor.skip(skip).limit(limit).to_list(limit)
Paginate(found, skip, limit) ==
    SubSeq(found, skip + 1, IF skip + limit < Len(found) THEN skip + limit ELSE Len(found))

search_properties(r) ==
    /\ CanStart(r)
    /\ \E criteria \in SearchCriteria, page \in 1..MaxPage, limit \in 1..MaxLimit :
        LET search_params == MongoSet(criteria, [page |-> page, limit |-> limit])
            skip == skip_of(search_params.page, search_params.limit)
            filter_dict == search_filter_dict(search_params)
            found == Paginate(find(properties, filter_dict), skip, search_params.limit)
            q == [req[r] EXCEPT !.op = "search_properties", !.body = search_params]
        IN  req' = [req EXCEPT ![r] =
                      Respond(q, 200, Some(ModelList(found, ListingFields)))]
    /\ UNCHANGED <<users, properties, favorites, inquiries, now, nextId>>

get_properties(r) ==
    /\ CanStart(r)
    /\ \E criteria \in ListCriteria, page \in 1..MaxPage, limit \in 1..MaxLimit :
        LET params == MongoSet(criteria, [page |-> page, limit |-> limit])
            skip == skip_of(params.page, params.limit)
            filter_dict == list_filter_dict(params)
            found == Paginate(find(properties, filter_dict), skip, params.limit)
            q == [req[r] EXCEPT !.op = "get_properties", !.body = params]
        IN  req' = [req EXCEPT ![r] =
                      Respond(q, 200, Some(ModelList(found, ListingFields)))]
    /\ UNCHANGED <<users, properties, favorites, inquiries, now, nextId>>

(* GET /stats *)

get_stats_total_properties(r) ==
    /\ CanStart(r)
    /\ LET total_properties == count_documents(properties, <<>>)
       IN  req' = [req EXCEPT ![r] =
                     [@ EXCEPT !.op = "get_stats", !.pc = "stats_for_sale",
                               !.doc = Some([total_properties |-> total_properties])]]
    /\ UNCHANGED <<users, properties, favorites, inquiries, now, nextId>>

get_stats_properties_for_sale(r) ==
    /\ req[r].pc = "stats_for_sale"
    /\ LET properties_for_sale == count_documents(properties, [status |-> "for_sale"])
       IN  req' = [req EXCEPT ![r] =
                     [@ EXCEPT !.pc = "stats_for_rent",
                               !.doc = Some([total_properties |-> @[1].total_properties,
                                             properties_for_sale |-> properties_for_sale])]]
    /\ UNCHANGED <<users, properties, favorites, inquiries, now, nextId>>

get_stats_properties_for_rent(r) ==
    /\ req[r].pc = "stats_for_rent"
    /\ LET properties_for_rent == count_documents(properties, [status |-> "for_rent"])
       IN  req' = [req EXCEPT ![r] =
                     [@ EXCEPT !.pc = "stats_users",
                               !.doc = Some([total_properties |-> @[1].total_properties,
                                             properties_for_sale |-> @[1].properties_for_sale,
                                             properties_for_rent |-> properties_for_rent])]]
    /\ UNCHANGED <<users, properties, favorites, inquiries, now, nextId>>

get_stats_total_users(r) ==
    /\ req[r].pc = "stats_users"
    /\ LET total_users == count_documents(users, <<>>)
       IN  req' = [req EXCEPT ![r] =
                     Respond(@, 200,
                             Some([total_properties |-> req[r].doc[1].total_properties,
                                   properties_for_sale |-> req[r].doc[1].properties_for_sale,
                                   properties_for_rent |-> req[r].doc[1].properties_for_rent,
                                   total_users |-> total_users]))]
    /\ UNCHANGED <<users, properties, favorites, inquiries, now, nextId>>

-----------------------------------------------------------------------------
(* The listing store, started on the sample data *)

\* the sample data went in at time 0 and the clients logged in then
Init ==
    /\ users = sample_users
    /\ properties = sample_properties
    /\ favorites = <<>>
    /\ inquiries = <<>>
    /\ now = TimeStep
    /\ nextId = SeedPropertyId + 1
    /\ req = [r \in Slots |-> Idle]

Next ==
    \E r \in Req :
        /\ \/ create_property_auth(r)
           \/ create_property_insert(r)
           \/ get_property_find(r)
           \/ get_property_inc(r)
           \/ update_property_auth(r)
           \/ update_property_find(r)
           \/ update_property_set(r)
           \/ update_property_reread(r)
           \/ delete_property_auth(r)
           \/ delete_property_find(r)
           \/ delete_property_del(r)
        /\ Honest(r)
        /\ req'[r].body # StatusUpdate

Spec == Init /\ [][Next]_vars

(* Registration and login on an empty database *)

InitAuth ==
    /\ users = <<>>
    /\ properties = <<>>
    /\ favorites = <<>>
    /\ inquiries = <<>>
    /\ now = 0
    /\ nextId = 1
    /\ req = [r \in Slots |-> Idle]

NextAuth ==
    \/ \E r \in FavReq :
          /\ \/ register_find(r)
             \/ register_insert(r)
             \/ login(r)
             \/ get_current_user_info(r)
          /\ req'[r].token \in IssuedTokens \union {NoToken}
    \/ Tick

SpecAuth == InitAuth /\ [][NextAuth]_vars

(* The counts of GET /stats while the sample seller creates, updates and
   deletes listings *)

NextStats ==
    \E r \in Req :
        /\ \/ get_stats_total_properties(r)
           \/ get_stats_properties_for_sale(r)
           \/ get_stats_properties_for_rent(r)
           \/ get_stats_total_users(r)
           \/ create_property_auth(r)
           \/ create_property_insert(r)
           \/ update_property_auth(r)
           \/ update_property_find(r)
           \/ update_property_set(r)
           \/ update_property_reread(r)
           \/ delete_property_auth(r)
           \/ delete_property_find(r)
           \/ delete_property_del(r)
        /\ req'[r].token \in {NoToken, SeedToken(SellerId)}

SpecStats == Init /\ [][NextStats]_vars

(* Updates and deletions of the sample property by its owner and the agents,
   in flight together *)

NextUpdate ==
    \E r \in Req :
        /\ \/ update_property_auth(r)
           \/ update_property_find(r)
           \/ update_property_set(r)
           \/ update_property_reread(r)
           \/ delete_property_auth(r)
           \/ delete_property_find(r)
           \/ delete_property_del(r)
        /\ Honest(r)
        /\ req'[r].pid = SeedPropertyId

SpecUpdate == Init /\ [][NextUpdate]_vars

(* The token issuer: called by itself, by register and by login *)

NextToken ==
    \/ \E r \in Req :
          /\ \/ issue_token(r)
             \/ register_find(r)
             \/ register_insert(r)
             \/ login(r)
          /\ req'[r].token = NoToken
    \/ Tick

SpecToken == InitAuth /\ [][NextToken]_vars

(* The favorites, with requests in flight together *)

NextFav ==
    \E r \in FavReq :
        /\ \/ add_to_favorites_auth(r)
           \/ add_to_favorites_find_property(r)
           \/ add_to_favorites_find_existing(r)
           \/ add_to_favorites_insert(r)
           \/ remove_from_favorites_auth(r)
           \/ remove_from_favorites_delete(r)
        /\ Honest(r)

SpecFav == Init /\ [][NextFav]_vars

(* The favorites, one request at a time *)

NoneInFlight == \A q \in Slots : req[q].pc \in {"idle", "done"}

NextFavSeq ==
    \E r \in SeqReq :
        /\ \/ NoneInFlight /\ add_to_favorites_auth(r)
           \/ add_to_favorites_find_property(r)
           \/ add_to_favorites_find_existing(r)
           \/ add_to_favorites_insert(r)
           \/ NoneInFlight /\ remove_from_favorites_auth(r)
           \/ remove_from_favorites_delete(r)
        /\ Honest(r)

SpecFavSeq == Init /\ [][NextFavSeq]_vars

(* The sample buyer's favorite for the sample property: added with requests in
   flight together, removed and listed when no request is in flight *)

\* no request other than an add_to_favorites is being handled
OnlyAddsInFlight ==
    \A q \in Slots :
        req[q].pc \in {"idle", "done"} \/ req[q].op = "add_to_favorites"

NextUnfav ==
    \E r \in SeqReq :
        /\ \/ OnlyAddsInFlight /\ add_to_favorites_auth(r)
           \/ add_to_favorites_find_property(r)
           \/ add_to_favorites_find_existing(r)
           \/ add_to_favorites_insert(r)
           \/ NoneInFlight /\ remove_from_favorites_auth(r)
           \/ remove_from_favorites_delete(r)
           \/ NoneInFlight /\ get_favorites_auth(r)
           \/ get_favorites_find(r)
           \/ get_favorites_find_properties(r)
        /\ req'[r].token = SeedToken(BuyerId)
        /\ req'[r].pid \in {0, SeedPropertyId}
        /\ req'[r].op \in {"add_to_favorites", "remove_from_favorites"}
              => req'[r].pid = SeedPropertyId

SpecUnfav == Init /\ [][NextUnfav]_vars

(* The sample buyer lists properties, inquiries are filed and read, one
   request at a time *)

NextInbox ==
    \E r \in FavReq :
        /\ \/ NoneInFlight /\ create_property_auth(r)
                         /\ req'[r].token = SeedToken(BuyerId)
           \/ create_property_insert(r)
           \/ NoneInFlight /\ create_inquiry_auth(r)
           \/ create_inquiry_insert(r)
           \/ NoneInFlight /\ get_inquiries_auth(r)
           \/ get_inquiries_find(r)
           \/ get_inquiries_find_in(r)
        /\ Honest(r)

SpecInbox == Init /\ [][NextInbox]_vars

(* Favorites, inquiries and the deletion of listings, in flight together *)

AgentListingId == 6

\* the store after the agent of the sample property listed a property of her
\* own, the buyer made the sample property a favorite and asked about it, and the
\* seller did the same with the agent's listing
InitEngage ==
    /\ users = sample_users
    /\ properties =
          Append(sample_properties,
                 [id |-> AgentListingId, title |-> "Test Property",
                  status |-> "for_sale", price |-> 350000, is_featured |-> FALSE,
                  owner_id |-> AgentId, agent_id |-> None, views |-> 0,
                  created_at |-> 0, updated_at |-> 0])
    /\ favorites =
          << [id |-> AgentListingId + 1, user_id |-> BuyerId,
              property_id |-> SeedPropertyId, created_at |-> 0],
             [id |-> AgentListingId + 2, user_id |-> SellerId,
              property_id |-> AgentListingId, created_at |-> 0] >>
    /\ inquiries =
          << [id |-> AgentListingId + 3, property_id |-> SeedPropertyId,
              user_id |-> BuyerId, message |-> "I'm interested in this property.",
              contact_email |-> "bob.buyer@example.com",
              status |-> "new", created_at |-> 0],
             [id |-> AgentListingId + 4, property_id |-> AgentListingId,
              user_id |-> SellerId, message |-> "I'm interested in this property.",
              contact_email |-> "john.seller@example.com",
              status |-> "new", created_at |-> 0] >>
    /\ now = TimeStep
    /\ nextId = AgentListingId + 5
    /\ req = [r \in Slots |-> Idle]

NextEngage ==
    \E r \in Req :
        /\ \/ delete_property_auth(r)
           \/ delete_property_find(r)
           \/ delete_property_del(r)
           \/ add_to_favorites_auth(r)
           \/ add_to_favorites_find_property(r)
           \/ add_to_favorites_find_existing(r)
           \/ add_to_favorites_insert(r)
           \/ get_favorites_auth(r)
           \/ get_favorites_find(r)
           \/ get_favorites_find_properties(r)
           \/ create_inquiry_auth(r)
           \/ create_inquiry_insert(r)
           \/ get_inquiries_auth(r)
           \/ get_inquiries_find(r)
           \/ get_inquiries_find_in(r)
        /\ Honest(r)

SpecEngage == InitEngage /\ [][NextEngage]_vars

(* One search or listing request on a store of listings *)

\* listings made with POST /properties by the sample seller
listings ==
    << [id |-> 11, title |-> <<"V", "i", "l", "l", "a">>,
        description |-> <<"P", "o", "o", "l">>, property_type |-> "villa",
        status |-> "for_sale", price |-> 350000, bedrooms |-> 3, bathrooms |-> 2,
        area_sqft |-> 1500, address |-> <<"S", "e", "a">>, city |-> <<"L", "A">>,
        state |-> <<"C", "A">>, is_featured |-> TRUE, owner_id |-> SellerId,
        agent_id |-> None, views |-> 0, created_at |-> 0, updated_at |-> 0],
       [id |-> 12, title |-> <<"H", "o", "m", "e">>,
        description |-> <<"v", "i", "l", "l", "a", "s">>, property_type |-> "house",
        status |-> "for_sale", price |-> 400000, bedrooms |-> 4, bathrooms |-> 3,
        area_sqft |-> 2000, address |-> <<"H", "i", "l", "l">>,
        city |-> <<"S", "F">>, state |-> <<"C", "A">>, is_featured |-> FALSE,
        owner_id |-> SellerId, agent_id |-> None, views |-> 0, created_at |-> 0,
        updated_at |-> 0],
       [id |-> 13, title |-> <<"L", "o", "t">>,
        description |-> <<"L", "a", "n", "d">>, property_type |-> "land",
        status |-> "for_sale", price |-> 0, bedrooms |-> 0, bathrooms |-> 0,
        area_sqft |-> 0, address |-> <<"H", "i", "l", "l">>,
        city |-> <<"L", "A">>, state |-> <<"N", "V">>, is_featured |-> FALSE,
        owner_id |-> SellerId, agent_id |-> None, views |-> 0, created_at |-> 0,
        updated_at |-> 0],
       [id |-> 14, title |-> <<"F", "l", "a", "t">>,
        description |-> <<"L", "o", "f", "t">>, property_type |-> "apartment",
        status |-> "for_rent", price |-> 2400, bedrooms |-> 1, bathrooms |-> 1,
        area_sqft |-> 800, address |-> <<"V", "I", "L", "L", "A", " ", "R", "d">>,
        city |-> <<"L", "A">>, state |-> <<"C", "A">>, is_featured |-> TRUE,
        owner_id |-> SellerId, agent_id |-> None, views |-> 0, created_at |-> 0,
        updated_at |-> 0] >>

\* the store holds the first listings, as many as there are or MaxStored
InitSearch ==
    /\ users = sample_users
    /\ \E n \in 0..MaxStored :
          properties = SubSeq(listings, 1, IF n < Len(listings) THEN n ELSE Len(listings))
    /\ favorites = <<>>
    /\ inquiries = <<>>
    /\ now = TimeStep
    /\ nextId = 15
    /\ req = [r \in Slots |-> Idle]

\* the request is the first of the run
NextSearch ==
    \/ search_properties(1)
    \/ get_properties(1)

SpecSearch == InitSearch /\ [][NextSearch]_vars

(* One request to a route that asks for a token, while time passes *)

GateReq == 1..1

NextGate ==
    \/ Tick
    \/ \E r \in GateReq :
          \/ get_current_user_info(r)
          \/ create_property_auth(r)
          \/ create_property_insert(r)
          \/ update_property_auth(r)
          \/ update_property_find(r)
          \/ update_property_set(r)
          \/ update_property_reread(r)
          \/ delete_property_auth(r)
          \/ delete_property_find(r)
          \/ delete_property_del(r)
          \/ add_to_favorites_auth(r)
          \/ add_to_favorites_find_property(r)
          \/ add_to_favorites_find_existing(r)
          \/ add_to_favorites_insert(r)
          \/ remove_from_favorites_auth(r)
          \/ remove_from_favorites_delete(r)
          \/ get_favorites_auth(r)
          \/ get_favorites_find(r)
          \/ get_favorites_find_properties(r)
          \/ create_inquiry_auth(r)
          \/ create_inquiry_insert(r)
          \/ get_inquiries_auth(r)
          \/ get_inquiries_find(r)
          \/ get_inquiries_find_in(r)

SpecGate == InitEngage /\ [][NextGate]_vars

(* The listing routes walked through in the order of Scenario, one request at a
   time, by a user who registers first and by the sample buyer *)

Turn(r, op) == NoneInFlight /\ Scenario[r] = op

\* the callers of the walk: whoever registered in it and the sample buyer
ScenarioCaller(r) == req'[r].token \in IssuedTokens \union {SeedToken(BuyerId)}

NextScenario ==
    \E r \in ScenarioReq :
        \/ Turn(r, "register") /\ register_find(r)
        \/ register_insert(r)
        \/ Turn(r, "create_property") /\ create_property_auth(r) /\ ScenarioCaller(r)
        \/ create_property_insert(r)
        \/ Turn(r, "update_property") /\ update_property_auth(r) /\ ScenarioCaller(r)
        \/ update_property_find(r)
        \/ update_property_set(r)
        \/ update_property_reread(r)
        \/ Turn(r, "get_property") /\ get_property_find(r)
        \/ get_property_inc(r)
        \/ Turn(r, "delete_property") /\ delete_property_auth(r) /\ ScenarioCaller(r)
        \/ delete_property_find(r)
        \/ delete_property_del(r)

SpecScenario == Init /\ [][NextScenario]_vars

-----------------------------------------------------------------------------
(* Vocabulary of the properties below *)

\* the stored property documents with this id
Stored(id) == {p \in Range(properties) : p.id = id}

StoredAfter(id) == {p \in Range(properties') : p.id = id}

\* request r takes a step
Steps(r) == req'[r] # req[r]

\* the caller of r is the stored owner of the property r names, or an agent
OwnerOrAgent(r) ==
    \E p \in Stored(req[r].pid) :
        p.owner_id = req[r].user[1].id \/ req[r].user[1].role = "agent"

\* views of a property when it entered the store
InitialViews(id) == IF id = SeedPropertyId THEN SeedViews ELSE 0

\* the get_property calls on this id that have returned 200
CompletedGets(id) ==
    {r \in Req : /\ req[r].op = "get_property" /\ req[r].pid = id
                 /\ req[r].pc = "done" /\ req[r].status = 200}

-----------------------------------------------------------------------------
\* C1: on an existing property, update_property and delete_property answer 403
\* and leave the store as it is when the caller is neither the stored owner nor
\* an agent; for the owner and for any agent they go on to the write, delete
\* answers 200 with the record gone, and update answers 200 with the record as
\* stored.
C1_OwnerOrAgentMutates ==
    [][\A r \in Req :
        /\ (req[r].pc \in {"update_find", "delete_find"} /\ Steps(r)
              /\ Stored(req[r].pid) # {})
           => IF OwnerOrAgent(r)
              THEN /\ req'[r].pc = (IF req[r].op = "update_property"
                                    THEN "update_set" ELSE "delete_del")
                   /\ properties' = properties
              ELSE /\ req'[r].pc = "done" /\ req'[r].status = 403
                   /\ properties' = properties
        /\ (req[r].pc = "update_set" /\ Steps(r)) => req'[r].pc = "update_reread"
        /\ (req[r].pc = "update_reread" /\ Steps(r) /\ Stored(req[r].pid) # {})
           => /\ req'[r].pc = "done" /\ req'[r].status = 200
              /\ req'[r].ret # None /\ req'[r].ret[1] \in Stored(req[r].pid)
        /\ (req[r].pc = "delete_del" /\ Steps(r))
           => /\ req'[r].pc = "done" /\ req'[r].status = 200
              /\ StoredAfter(req[r].pid) = {}
    ]_vars

\* the buyer was refused, and an agent who neither owns the property nor is its
\* agent_id deleted it
C1_Witness ==
    \E r1, r2 \in Req :
        /\ req[r1].pc = "done" /\ req[r1].status = 403
        /\ req[r1].op = "update_property" /\ req[r1].user[1].role = "buyer"
        /\ req[r2].pc = "done" /\ req[r2].status = 200
        /\ req[r2].op = "delete_property" /\ req[r2].user[1].role = "agent"
        /\ req[r2].doc[1].owner_id # req[r2].user[1].id
        /\ req[r2].doc[1].agent_id # Some(req[r2].user[1].id)
        /\ Stored(req[r1].pid) = {}

\* C2: update_property and delete_property on an id that is not in the store
\* answer 404 for every authenticated caller, never 403, and leave the store
\* as it is.
C2_NotFoundBeforeForbidden ==
    [][\A r \in Req :
        (req[r].pc \in {"update_find", "delete_find"} /\ Steps(r)
           /\ Stored(req[r].pid) = {})
        => /\ req'[r].pc = "done" /\ req'[r].status = 404
           /\ properties' = properties
    ]_vars

\* a buyer, who may mutate nothing, got 404 for an update of a missing id
C2_Witness ==
    \E r \in Req :
        /\ req[r].op = "update_property" /\ req[r].pc = "done"
        /\ req[r].status = 404 /\ req[r].user[1].role = "buyer"

\* C3: the stored views of a property are its initial views plus the number of
\* get_property calls on it that have completed with 200.
C3_NoLostView ==
    \A p \in Range(properties) :
        p.views = InitialViews(p.id) + Cardinality(CompletedGets(p.id))

\* two fetches of the sample property completed and both are counted
C3_Witness ==
    /\ Cardinality(CompletedGets(SeedPropertyId)) = 2
    /\ \E p \in Stored(SeedPropertyId) : p.views = SeedViews + 2

\* C4: the views a successful get_property returns are the stored views right
\* after its own increment, so two successful fetches of one property never
\* return the same views.
C4_ReturnsPostIncrement ==
    [][\A r \in Req :
        (req[r].pc = "get_inc" /\ Steps(r))
        => /\ req'[r].status = 200
           /\ \E p \in Stored(req[r].pid) : \E p2 \in StoredAfter(req[r].pid) :
                /\ p2.views = p.views + 1
                /\ req'[r].ret[1].views = p2.views
    ]_vars

\* C10: the write of a permitted update_property changes, in the property it
\* names, only fields the body supplies with a value and updated_at; id,
\* owner_id, created_at and views keep their values whatever the body holds, and
\* every other property document is untouched.
C10_UpdateFrame ==
    [][\A r \in Req :
        (req[r].op = "update_property" /\ Steps(r))
        => /\ Len(properties') = Len(properties)
           /\ \A i \in 1..Len(properties) :
                LET old == properties[i]
                    new == properties'[i]
                    supplied == {k \in DOMAIN req[r].body : req[r].body[k] # None}
                IN  IF old.id = req[r].pid /\ req[r].pc = "update_set"
                    THEN /\ DOMAIN new = DOMAIN old
                         /\ \A k \in DOMAIN old :
                              \/ new[k] = old[k]
                              \/ /\ k \in supplied /\ new[k] = req[r].body[k][1]
                                 /\ k \notin {"id", "owner_id", "created_at", "views"}
                              \/ k = "updated_at"
                    ELSE new = old
    ]_vars

\* the body that names id, owner_id, views and created_at was written: the price
\* changed and the owner did not
C10_Witness ==
    \E r \in Req : \E p \in Stored(req[r].pid) :
        /\ req[r].op = "update_property" /\ req[r].pc = "done" /\ req[r].status = 200
        /\ "owner_id" \in DOMAIN req[r].body
        /\ p.price = 0 /\ p.owner_id = SellerId /\ p.views = SeedViews
        /\ p.title = "Luxury Waterfront Villa with Pool"

-----------------------------------------------------------------------------
\* the latest of the add/remove calls before r that succeeded for this user and
\* property ("none" when there is none); slots are in order of arrival
LastFavoriteCall(r, user_id, property_id) ==
    LET S == {x \in 1..(r - 1) :
                /\ req[x].op \in {"add_to_favorites", "remove_from_favorites"}
                /\ req[x].pc = "done" /\ req[x].status = 200
                /\ req[x].user[1].id = user_id /\ req[x].pid = property_id}
    IN  IF S = {} THEN "none"
        ELSE req[CHOOSE x \in S : \A y \in S : y <= x].op

\* C5: the favorites hold at most one document per (user_id, property_id).
C5_OneFavoritePerPair ==
    \A i, j \in 1..Len(favorites) :
        (/\ favorites[i].user_id = favorites[j].user_id
         /\ favorites[i].property_id = favorites[j].property_id)
        => i = j

\* C6: with one request at a time, an add_to_favorites that follows a
\* successful add of the same user and property (no successful remove between)
\* fails with 400 and inserts nothing; a remove_from_favorites that follows a
\* successful remove (no successful add between) fails with 404 and deletes
\* nothing.
C6_SecondCallFails ==
    [][\A r \in SeqReq :
        LET q == req'[r] IN
        (Steps(r) /\ q.user # None)
        => /\ (q.op = "add_to_favorites"
                 /\ LastFavoriteCall(r, q.user[1].id, q.pid) = "add_to_favorites")
              => /\ favorites' = favorites
                 /\ q.pc = "done" => q.status = 400
           /\ (q.op = "remove_from_favorites"
                 /\ LastFavoriteCall(r, q.user[1].id, q.pid) = "remove_from_favorites")
              => /\ favorites' = favorites
                 /\ q.pc = "done" => q.status = 404
    ]_vars

\* one user added the sample property, was refused a second add, removed it and
\* was refused a second remove
C6_Witness ==
    \E u \in {BuyerId, SellerId} :
        /\ \A r \in 1..4 : /\ req[r].pc = "done" /\ req[r].pid = SeedPropertyId
                           /\ req[r].user[1].id = u
        /\ req[1].op = "add_to_favorites" /\ req[1].status = 200
        /\ req[2].op = "add_to_favorites" /\ req[2].status = 400
        /\ req[3].op = "remove_from_favorites" /\ req[3].status = 200
        /\ req[4].op = "remove_from_favorites" /\ req[4].status = 404
        /\ favorites = <<>>

\* C7: no two user documents have the same email.
C7_UniqueEmail ==
    \A i, j \in 1..Len(users) : users[i].email = users[j].email => i = j

\* C8: a register call whose email is in the users collection when it looks
\* ends at once with 400 and no Token, and the users collection is as before.
C8_DuplicateEmailRejected ==
    [][\A r \in FavReq :
        (req[r].pc = "idle" /\ req'[r].op = "register"
           /\ \E u \in Range(users) : u.email = req'[r].body.email)
        => /\ req'[r].pc = "done" /\ req'[r].status = 400 /\ req'[r].ret = None
           /\ users' = users /\ nextId' = nextId
    ]_vars

\* a register was refused for an email that one stored user has
C8_Witness ==
    \E r \in FavReq :
        /\ req[r].op = "register" /\ req[r].pc = "done" /\ req[r].status = 400
        /\ Cardinality({i \in 1..Len(users) : users[i].email = req[r].body.email}) = 1

\* C9: for every stored user and the password that user registered with, login
\* answers 200 with a token, and /auth/me answers that token with the same user
\* (same id and email) at every time before the token expires; the token that
\* register returned resolves to the user it registered.
C9_LoginResolvesToSameUser ==
    /\ \A i \in 1..Len(users) : \A c \in LoginBodies :
        (c.email = users[i].email
           /\ verify_password(c.password, users[i].hashed_password))
        => LET answer == login_response(c, users, now) IN
           /\ answer.status = 200
           /\ \A t \in now..(answer.ret[1].access_token.exp - 1) :
                get_current_user(answer.ret[1].access_token, t, users)
                    = Some(User(users[i]))
    /\ \A r \in FavReq :
        (req[r].op = "register" /\ req[r].pc = "done" /\ req[r].status = 200)
        => \A t \in now..(req[r].ret[1].access_token.exp - 1) :
              get_current_user(req[r].ret[1].access_token, t, users)
                  = Some(req[r].ret[1].user)

-----------------------------------------------------------------------------
\* C11: every update_property call of an authenticated caller ends with the
\* updated Property (200), with 404 or with 403, whatever the other requests do
\* between its steps; none ends with an unhandled error (500).
C11_UpdateEndsInOneOfThree ==
    \A r \in Req :
        (req[r].op = "update_property" /\ req[r].pc = "done" /\ req[r].user # None)
        => \/ req[r].status = 200 /\ req[r].ret # None
           \/ req[r].status \in {403, 404} /\ req[r].ret = None

\* the records of a collection that refer to this property
Referring(coll, id) == {d \in Range(coll) : d.property_id = id}

\* C12: a delete_property that answers 200 leaves no property with the id it
\* names and removes no other property; no step of a delete_property changes
\* the favorites, the inquiries (those that refer to the deleted property
\* included) or the users, and a delete that does not answer 200 changes no
\* property either.
C12_DeleteFrame ==
    [][\A r \in Req :
        (req'[r].op = "delete_property" /\ Steps(r))
        => /\ favorites' = favorites /\ inquiries' = inquiries /\ users' = users
           /\ IF req[r].pc = "delete_del"
              THEN /\ req'[r].pc = "done" /\ req'[r].status = 200
                   /\ StoredAfter(req[r].pid) = {}
                   /\ Len(properties') = Len(properties) - Cardinality(Stored(req[r].pid))
                   /\ \A i, j \in 1..Len(properties) :
                        (i < j /\ properties[i].id # req[r].pid
                               /\ properties[j].id # req[r].pid)
                        => \E k, l \in 1..Len(properties') :
                              /\ k < l /\ properties'[k] = properties[i]
                              /\ properties'[l] = properties[j]
                   /\ \A p \in Range(properties) :
                        p.id # req[r].pid => p \in Range(properties')
              ELSE /\ properties' = properties
                   /\ req'[r].pc = "done" => req'[r].status # 200
    ]_vars

\* the sample property was deleted; the favorite and the inquiry that refer to
\* it, the other listing and the four users are still stored
C12_Witness ==
    \E r \in Req :
        /\ req[r].op = "delete_property" /\ req[r].pc = "done" /\ req[r].status = 200
        /\ req[r].pid = SeedPropertyId /\ Stored(SeedPropertyId) = {}
        /\ Referring(favorites, SeedPropertyId) # {}
        /\ Referring(inquiries, SeedPropertyId) # {}
        /\ Stored(AgentListingId) # {} /\ users = sample_users

\* the ids of the properties this user has a favorite record for
FavoritedBy(user_id) ==
    {f.property_id : f \in {x \in Range(favorites) : x.user_id = user_id}}

\* the stored properties with one of these ids, as the Property model gives them
PropertiesOf(idset) == {Property(p) : p \in {x \in Range(properties) : x.id \in idset}}

C14_MissingPropertyIsNotFound ==
    [][\A r \in Req :
        /\ (req'[r].op = "add_to_favorites" /\ Steps(r)
              /\ req[r].pc \in {"idle", "fav_find_property"})
           => favorites' = favorites /\ req'[r].status # 400
        /\ (req[r].pc = "fav_find_property" /\ Steps(r) /\ Stored(req[r].pid) = {})
           => req'[r].pc = "done" /\ req'[r].status = 404
    ]_vars

\* the buyer, whose favorite for the deleted sample property is still stored,
\* added it again and got 404
C14_Witness ==
    \E r \in Req :
        /\ req[r].op = "add_to_favorites" /\ req[r].pc = "done" /\ req[r].status = 404
        /\ req[r].pid = SeedPropertyId /\ req[r].user[1].id = BuyerId
        /\ SeedPropertyId \in FavoritedBy(BuyerId)
        /\ Len(favorites) = 2

\* the stored inquiries this user filed, as the Inquiry model gives them
InquiriesBy(user_id) ==
    {[k \in InquiryFields |-> d[k]] : d \in {x \in Range(inquiries) : x.user_id = user_id}}

\* the stored inquiries about a property with one of these ids
InquiriesOn(idset) ==
    {[k \in InquiryFields |-> d[k]] : d \in {x \in Range(inquiries) : x.property_id \in idset}}

\* the ids of the stored properties whose owner_id is this user
OwnedBy(user_id) == {p.id : p \in {x \in Range(properties) : x.owner_id = user_id}}

C17_InquiryUserIsCaller ==
    [][inquiries' # inquiries
        => \E r \in Req :
              /\ req[r].op = "create_inquiry" /\ req[r].pc = "inquiry_insert"
              /\ req'[r].pc = "done"
              /\ Len(inquiries') = Len(inquiries) + 1
              /\ SubSeq(inquiries', 1, Len(inquiries)) = inquiries
              /\ inquiries'[Len(inquiries')].user_id = req[r].user[1].id
              /\ get_current_user(req[r].token, now, users) = req[r].user
    ]_vars

\* the buyer's request named the seller as user_id; the stored record has the buyer
C17_Witness ==
    \E r \in Req :
        /\ req[r].op = "create_inquiry" /\ req[r].pc = "done" /\ req[r].status = 200
        /\ req[r].user[1].id = BuyerId /\ req[r].body.user_id = SellerId
        /\ \E d \in Range(inquiries) :
              d.id = req[r].ret[1].id /\ d.user_id = BuyerId

\* C18: a create_inquiry of an authenticated caller never ends with an error:
\* whether or not its property_id is that of a stored property, it goes on to
\* the insert and answers 200 with the stored inquiry, whose status is "new"
\* and whose property_id is the one of the request.
C18_InquiryNeedsNoProperty ==
    [][\A r \in Req :
        (req'[r].op = "create_inquiry" /\ Steps(r) /\ req'[r].user # None)
        => IF req[r].pc = "idle"
           THEN req'[r].pc = "inquiry_insert"
           ELSE /\ req'[r].pc = "done" /\ req'[r].status = 200
                /\ inquiries' = Append(inquiries, req'[r].ret[1])
                /\ req'[r].ret[1].status = "new"
                /\ req'[r].ret[1].property_id = req[r].body.property_id
    ]_vars

\* an inquiry about the sample property was accepted after the property was
\* deleted, with status "new" although the body said "closed"
C18_Witness ==
    \E r1, r2 \in Req :
        /\ r1 < r2
        /\ req[r1].op = "delete_property" /\ req[r1].pc = "done"
        /\ req[r1].status = 200 /\ req[r1].pid = SeedPropertyId
        /\ req[r2].op = "create_inquiry" /\ req[r2].pc = "done"
        /\ req[r2].status = 200 /\ req[r2].pid = SeedPropertyId
        /\ req[r2].body.status = "closed"
        /\ Stored(SeedPropertyId) = {}
        /\ inquiries[Len(inquiries)].status = "new"
        /\ inquiries[Len(inquiries)].property_id = SeedPropertyId

-----------------------------------------------------------------------------
\* a property satisfies the predicates that the criteria name: equality on
\* property_type, status and is_featured, inclusive bounds on price, bedrooms,
\* bathrooms and area, and the query found in one of the four text fields
Satisfies(p, c) ==
    /\ c.property_type # None => p.property_type = c.property_type[1]
    /\ c.status # None => p.status = c.status[1]
    /\ c.is_featured # None => p.is_featured = c.is_featured[1]
    /\ c.min_price # None => p.price >= c.min_price[1]
    /\ c.max_price # None => p.price <= c.max_price[1]
    /\ c.min_bedrooms # None => p.bedrooms >= c.min_bedrooms[1]
    /\ c.max_bedrooms # None => p.bedrooms <= c.max_bedrooms[1]
    /\ c.min_bathrooms # None => p.bathrooms >= c.min_bathrooms[1]
    /\ c.max_bathrooms # None => p.bathrooms <= c.max_bathrooms[1]
    /\ c.min_area # None => p.area_sqft >= c.min_area[1]
    /\ c.max_area # None => p.area_sqft <= c.max_area[1]
    /\ c.query # None
       => \/ RegexSearch(c.query[1], p.title)
          \/ RegexSearch(c.query[1], p.description)
          \/ RegexSearch(c.query[1], p.address)
          \/ RegexSearch(c.query[1], p.city)

\* the city and state of a property contain those that the criteria name
InLocation(p, c) ==
    /\ c.city # None => RegexSearch(c.city[1], p.city)
    /\ c.state # None => RegexSearch(c.state[1], p.state)

\* the stored properties that match the criteria, in the order of the store
Matching(c) ==
    LET M[i \in 0..Len(properties)] ==
            IF i = 0 THEN <<>>
            ELSE IF Satisfies(properties[i], c) /\ InLocation(properties[i], c)
            THEN Append(M[i - 1], properties[i])
            ELSE M[i - 1]
    IN  M[Len(properties)]

\* the requests that search_properties has answered
Searched == {r \in Slots : req[r].op = "search_properties" /\ req[r].pc = "done"}

\* the requests that search_properties or get_properties has answered
Listed ==
    {r \in Slots : /\ req[r].op \in {"search_properties", "get_properties"}
                   /\ req[r].pc = "done"}

\* C19: search_properties answers 200, and every property in the answer
\* satisfies every predicate the criteria name (a bound of 0 is a bound);
\* predicates that are absent exclude nothing: on the first page of a store no
\* larger than limit, every stored property that satisfies the named predicates
\* and lies in the named city and state is in the answer.
C19_SearchResultsSatisfyCriteria ==
    \A r \in Searched :
        /\ req[r].status = 200
        /\ \A i \in 1..Len(req[r].ret[1]) :
              /\ Satisfies(req[r].ret[1][i], req[r].body)
              /\ req[r].ret[1][i] \in Range(properties)
        /\ (req[r].body.page = 1 /\ Len(properties) <= req[r].body.limit)
           => \A p \in Range(properties) :
                (Satisfies(p, req[r].body) /\ InLocation(p, req[r].body))
                => p \in Range(req[r].ret[1])

\* a search for "villa" among the houses: of three stored listings the answer is
\* the house whose description has the word, and not the villa of that title
C19_Witness ==
    \E r \in Searched :
        /\ req[r].body.query = Some(<<"v", "i", "l", "l", "a">>)
        /\ req[r].body.property_type = Some("house")
        /\ Len(properties) = 3
        /\ Len(req[r].ret[1]) = 1
        /\ req[r].ret[1][1].title = <<"H", "o", "m", "e">>
        /\ \E p \in Range(properties) : p.title = <<"V", "i", "l", "l", "a">>

\* C20: get_properties and search_properties answer with the matching
\* properties at positions (page-1)*limit to page*limit-1 of the store's order
\* of the matches (counted from 0): never more than limit, and with no
\* predicate, page 1 and a limit no smaller than the store, with every stored
\* property.
C20_Pagination ==
    \A r \in Listed :
        LET c == req[r].body
            answer == req[r].ret[1]
            M == Matching(c)
            skip == (c.page - 1) * c.limit
            rest == IF Len(M) > skip THEN Len(M) - skip ELSE 0
        IN  /\ req[r].status = 200
            /\ Len(answer) <= c.limit
            /\ Len(answer) = IF rest < c.limit THEN rest ELSE c.limit
            /\ \A i \in 1..Len(answer) : answer[i] = M[skip + i]
            /\ (c.page = 1 /\ Len(properties) <= c.limit
                  /\ \A k \in PredicateNames : c[k] = None)
               => answer = properties

\* the second page of two of a store of three listings is the third listing,
\* and a first page as large as a store of two is the whole store
C20_Witness ==
    \E r \in Listed :
        /\ req[r].op = "get_properties"
        /\ \A k \in PredicateNames : req[r].body[k] = None
        /\ req[r].body.page = 2 /\ req[r].body.limit = 2
        /\ Len(properties) = 3
        /\ req[r].ret[1] = <<properties[3]>>

-----------------------------------------------------------------------------
\* C21: the properties grow only by the insert of a create_property, which
\* appends one record whose owner_id is the id of the authenticated caller,
\* whose views are 0 and whose is_featured is the one of the body, or FALSE
\* when the body has none; an owner_id or views in the body has no effect.
C21_CreateAssignsOwnerAndViews ==
    [][Len(properties') > Len(properties)
        => \E r \in Req :
              LET body == req[r].body
                  new == properties'[Len(properties')]
              IN  /\ req[r].op = "create_property" /\ req[r].pc = "create_insert"
                  /\ req'[r].pc = "done" /\ req'[r].status = 200
                  /\ properties' = Append(properties, new)
                  /\ get_current_user(req[r].token, now, users) = req[r].user
                  /\ new.owner_id = req[r].user[1].id
                  /\ new.views = 0
                  /\ new.is_featured = IF "is_featured" \in DOMAIN body
                                        THEN body.is_featured[1] ELSE FALSE
                  /\ req'[r].ret = Some(Property(new))
    ]_vars

\* the seller sent a body with the buyer as owner_id and 999 views, and an agent
\* sent one with is_featured: the stored records have the callers as owners, no
\* views, and is_featured only where the body set it
C21_Witness ==
    \E r1, r2 \in Req : \E p1, p2 \in Range(properties) :
        /\ req[r1].op = "create_property" /\ req[r1].pc = "done"
        /\ req[r1].status = 200 /\ p1.id = req[r1].ret[1].id
        /\ req[r1].user[1].id = SellerId /\ "owner_id" \in DOMAIN req[r1].body
        /\ req[r1].body.owner_id = Some(BuyerId) /\ req[r1].body.views = Some(999)
        /\ p1.owner_id = SellerId /\ p1.views = 0 /\ p1.is_featured = FALSE
        /\ req[r2].op = "create_property" /\ req[r2].pc = "done"
        /\ req[r2].status = 200 /\ p2.id = req[r2].ret[1].id
        /\ req[r2].user[1].role = "agent" /\ "is_featured" \in DOMAIN req[r2].body
        /\ p2.owner_id = req[r2].user[1].id /\ p2.views = 0
        /\ p2.is_featured = TRUE

-----------------------------------------------------------------------------
(* The end-to-end walk *)

\* request k of the walk has been answered
Answered(k) == req[k].pc = "done"

\* the token the registration of the walk answered with, and the listing the
\* walk created (read only once those requests were answered with success)
WalkToken == req[1].ret[1].access_token

WalkListing == req[2].ret[1].id

\* the calls of the walk as the requests made them
Walk1 == req[1].op = "register" /\ req[1].body.role = "seller"

Walk2 ==
    /\ req[2].op = "create_property" /\ req[2].token = WalkToken
    /\ req[2].body.price = Some(350000)

Walk3 ==
    /\ req[3].op = "update_property" /\ req[3].token = WalkToken
    /\ req[3].pid = WalkListing
    /\ "price" \in DOMAIN req[3].body /\ req[3].body.price = Some(375000)

Walk4 == req[4].op = "get_property" /\ req[4].pid = WalkListing

Walk5 ==
    /\ req[5].op = "delete_property" /\ req[5].token = SeedToken(BuyerId)
    /\ req[5].pid = WalkListing

Walk6 ==
    /\ req[6].op = "delete_property" /\ req[6].token = WalkToken
    /\ req[6].pid = WalkListing

Walk7 == req[7].op = "get_property" /\ req[7].pid = WalkListing

\* C22: the walk register seller, create with price 350000, update the price to
\* 375000 as the seller, get by id, delete as the buyer, delete as the seller,
\* get by id is answered in order with: success, success, success, the property
\* with price 375000 and one view more than at its creation (stored and
\* returned), 403 with the property still stored, success, 404.
C22_EndToEndWalk ==
    (Walk1 /\ Answered(1)) =>
      /\ req[1].status = 200
      /\ (Walk2 /\ Answered(2)) =>
          /\ req[2].status = 200
          /\ req[2].ret[1].price = 350000 /\ req[2].ret[1].views = 0
          /\ (Walk3 /\ Answered(3)) =>
              /\ req[3].status = 200
              /\ req[3].ret[1].price = 375000
              /\ (Walk4 /\ Answered(4)) =>
                  /\ req[4].status = 200
                  /\ req[4].ret[1].price = 375000
                  /\ req[4].ret[1].views = req[2].ret[1].views + 1
                  /\ ~Answered(6) =>
                        \A p \in Stored(WalkListing) : p.price = 375000 /\ p.views = 1
                  /\ (Walk5 /\ Answered(5)) =>
                      /\ req[5].status = 403
                      /\ ~Answered(6) => Stored(WalkListing) # {}
                      /\ (Walk6 /\ Answered(6)) =>
                          /\ req[6].status = 200
                          /\ Stored(WalkListing) = {}
                          /\ (Walk7 /\ Answered(7)) => req[7].status = 404

\* the whole walk was made and its last request was answered
C22_Witness ==
    /\ Walk1 /\ Answered(1) /\ req[1].status = 200
    /\ req[2].op = "create_property" /\ Answered(2) /\ req[2].status = 200 /\ Walk2
    /\ Walk3 /\ Walk4 /\ Walk5 /\ Walk6 /\ Walk7
    /\ Answered(7) /\ req[7].status = 404 /\ req[5].status = 403
    /\ req[6].status = 200 /\ req[4].ret[1].views = 1

-----------------------------------------------------------------------------
(* The status of a refused favorite *)

\* C23: an add_to_favorites call that is refused because the caller's favorite
\* for the property exists already is answered with 409, which is neither the
\* status of a registration with a taken email (400, register) nor that of a
\* body that fails validation (422).
C23_DuplicateFavoriteIsConflict ==
    [][\A r \in SeqReq :
          ( /\ req[r].pc = "fav_find_existing" /\ req'[r].pc = "done"
            /\ find_one(favorites, FavoriteFilter(req[r].user[1].id, req[r].pid)) # None )
          => /\ req'[r].status = 409
             /\ req'[r].status \notin {400, 422}
    ]_vars

-----------------------------------------------------------------------------
(* Tokens that do not verify *)

\* the routes that depend on get_current_user
AuthRequired ==
    {"get_current_user_info", "create_property", "update_property",
     "delete_property", "add_to_favorites", "remove_from_favorites",
     "get_favorites", "create_inquiry", "get_inquiries"}

\* the three ways a token fails to verify at time t
Malformed(token) == ~token.wellformed

BadSignature(token) == token.wellformed /\ token.sig # SECRET_KEY

Expired(token, t) == token.wellformed /\ token.sig = SECRET_KEY /\ t >= token.exp

\* C24: a request to a route that asks for a token, made with a token that is
\* expired, malformed or signed with another key, is answered at once with 401
\* and the one detail "Invalid authentication credentials" whatever the cause;
\* nothing of the handler runs and the store stays as it was.
C24_InvalidTokenRejectedUniformly ==
    [][\A r \in GateReq :
          ( /\ req[r].pc = "idle" /\ req'[r].pc # "idle"
            /\ req'[r].op \in AuthRequired
            /\ \/ Malformed(req'[r].token)
               \/ BadSignature(req'[r].token)
               \/ Expired(req'[r].token, now) )
          => /\ req'[r].pc = "done"
             /\ req'[r].status = 401
             /\ req'[r].ret = None
             /\ get_current_user_detail(req'[r].token, now, users)
                    = "Invalid authentication credentials"
             /\ UNCHANGED <<users, properties, favorites, inquiries, nextId>>
    ]_vars

\* the sample seller's token, valid at first, was refused on DELETE
\* /properties/{id} of the seller's own listing once it had expired
C24_Witness ==
    \E r \in GateReq :
        /\ req[r].op = "delete_property" /\ req[r].pc = "done"
        /\ req[r].status = 401
        /\ req[r].token = SeedToken(SellerId)
        /\ Expired(req[r].token, now)
        /\ req[r].pid = SeedPropertyId
        /\ Stored(SeedPropertyId) # {}

-----------------------------------------------------------------------------
(* The lifetime of a token *)

\* C25: a token that create_access_token issues without an expiry duration, and
\* every token that register and login issue, expires exactly
\* ACCESS_TOKEN_EXPIRE_MINUTES (30) minutes after the time of its issue.
C25_DefaultTtlIsThirty ==
    [][\A r \in Req :
          ( /\ req[r].pc # "done" /\ req'[r].pc = "done" /\ req'[r].status = 200
            /\ \/ req'[r].op \in {"register", "login"}
               \/ /\ req'[r].op = "create_access_token"
                  /\ req'[r].body.expires_delta = None )
          => req'[r].ret[1].access_token.exp = now + ACCESS_TOKEN_EXPIRE_MINUTES
    ]_vars

-----------------------------------------------------------------------------
(* The views counter *)

\* C26: the stored views of a property never go down, and a step changes them
\* only by adding one, as the increment of a get_property call on that property;
\* no step of another route changes them.
C26_ViewsOnlyCountGets ==
    [][\A p \in Range(properties) : \A n \in StoredAfter(p.id) :
          /\ n.views >= p.views
          /\ n.views # p.views =>
                /\ n.views = p.views + 1
                /\ \E r \in Slots :
                      /\ req[r].op = "get_property" /\ req[r].pc = "get_inc"
                      /\ req[r].pid = p.id
                      /\ req'[r].pc = "done" /\ req'[r].status = 200
    ]_vars

\* the sample property was fetched once and updated with a body that names
\* views, and its counter is one above the seeded value
C26_Witness ==
    \E g, u \in Req : \E p \in Stored(SeedPropertyId) :
        /\ req[g].op = "get_property" /\ req[g].pc = "done" /\ req[g].status = 200
        /\ req[g].pid = SeedPropertyId
        /\ req[u].op = "update_property" /\ req[u].pc = "done" /\ req[u].status = 200
        /\ req[u].pid = SeedPropertyId
        /\ "views" \in DOMAIN req[u].body /\ req[u].body.views = Some(0)
        /\ p.views = SeedViews + 1

-----------------------------------------------------------------------------
(* A removed favorite *)

\* request a is an add_to_favorites of user u for property id
AddsFavorite(a, u, id) ==
    /\ req[a].op = "add_to_favorites" /\ req[a].user # None
    /\ req[a].user[1].id = u /\ req[a].pid = id

\* C27: when a remove_from_favorites of a user for a property has returned
\* success and the user has made no add_to_favorites call for that property
\* since, a get_favorites of the user made after it does not return the
\* property, whatever happened before the removal.
C27_RemovedFavoriteIsGone ==
    \A d, g \in SeqReq :
        ( /\ d < g
          /\ req[d].op = "remove_from_favorites" /\ req[d].pc = "done"
          /\ req[d].status = 200
          /\ req[g].op = "get_favorites" /\ req[g].pc = "done" /\ req[g].status = 200
          /\ req[g].user[1].id = req[d].user[1].id
          /\ \A a \in SeqReq :
                a > d => ~AddsFavorite(a, req[d].user[1].id, req[d].pid) )
        => \A p \in Range(req[g].ret[1]) : p.id # req[d].pid

-----------------------------------------------------------------------------
(* The counts of GET /stats *)

\* C28: in every answer of get_stats the properties for sale and the
\* properties for rent together are at most the total of properties, also when
\* listings are created, updated or deleted between its count queries.
C28_StatsConsistent ==
    \A r \in Req :
        (req[r].op = "get_stats" /\ req[r].pc = "done")
        => req[r].ret[1].properties_for_sale + req[r].ret[1].properties_for_rent
              <= req[r].ret[1].total_properties

-----------------------------------------------------------------------------
(* Updates of different fields *)

\* the updatable fields that a request body gives a value
SuppliedFields(body) == {k \in DOMAIN body \cap PropertyUpdateFields : body[k] # None}

\* request r is an update_property that was answered with the updated property
Updated(r, id) ==
    /\ req[r].op = "update_property" /\ req[r].pid = id
    /\ req[r].pc = "done" /\ req[r].status = 200

\* request q has not touched property id
Untouched(q, id) ==
    \/ req[q].pc = "idle"
    \/ req[q].op \notin {"update_property", "delete_property"}
    \/ req[q].pid # id
    \/ req[q].pc = "done" /\ req[q].status # 200

\* C29: when two update_property calls on one property that give values to
\* disjoint sets of fields have both been answered with success, and no other
\* update or delete touched the property, the stored property has the values
\* of both bodies, in whatever order their steps ran.
C29_DisjointUpdatesBothApply ==
    \A r1, r2 \in Req : \A p \in Range(properties) :
        ( /\ r1 # r2 /\ Updated(r1, p.id) /\ Updated(r2, p.id)
          /\ SuppliedFields(req[r1].body) \cap SuppliedFields(req[r2].body) = {}
          /\ \A q \in Req \ {r1, r2} : Untouched(q, p.id) )
        => /\ \A k \in SuppliedFields(req[r1].body) : p[k] = req[r1].body[k][1]
           /\ \A k \in SuppliedFields(req[r2].body) : p[k] = req[r2].body[k][1]

\* the owner renamed and repriced the sample property while an agent marked it
\* sold, each having read it before the other wrote
C29_Witness ==
    \E r1, r2 \in Req : \E p \in Stored(SeedPropertyId) :
        /\ Updated(r1, SeedPropertyId) /\ Updated(r2, SeedPropertyId)
        /\ req[r1].body = StatusUpdate
        /\ SuppliedFields(req[r2].body) = {"title", "price", "is_featured"}
        /\ req[r1].doc[1].status = "for_sale" /\ req[r2].doc[1].status = "for_sale"
        /\ req[r1].doc[1].price = SeedPrice /\ req[r2].doc[1].price = SeedPrice
        /\ req[r1].user[1].id # req[r2].user[1].id
        /\ p.status = "sold" /\ p.price = 375000 /\ p.title = "Updated Property"

-----------------------------------------------------------------------------
(* The inquiries on a caller's own properties *)

\* request g is the last request made so far
IsLatest(g) == \A q \in FavReq : q > g => req[q].pc = "idle"

\* C30: a get_inquiries answers its caller with every stored inquiry about a
\* stored property whose owner_id is the caller, whatever the caller's role,
\* a buyer who created a property included.
C30_OwnerSeesEveryInquiry ==
    \A g \in FavReq :
        ( /\ req[g].op = "get_inquiries" /\ req[g].pc = "done" /\ req[g].status = 200
          /\ IsLatest(g) )
        => InquiriesOn(OwnedBy(req[g].user[1].id)) \subseteq Range(req[g].ret[1])
====
